---- MODULE Spec2Model ----
(***************************************************************************)
(* A model of the OpenAPI-to-tool pipeline of mission-pizza:               *)
(*   generator.py   the schema extractor and the emitted tool functions    *)
(*   mcp_client.py  SimpleMCPClient (HTTP) and MCPClient (stdio JSON-RPC)  *)
(* Strings are sequences of one-character strings, so that replace, split, *)
(* strip and lower are computed as Python computes them.                   *)
(***************************************************************************)
EXTENDS Integers, Sequences, FiniteSets, TLC

VARIABLES
    doc,        \* the OpenAPI document served at /openapi.json
    generated,  \* generate_mcp_server's output: the emitted tool functions
    tools,      \* SimpleMCPClient.tools, a partial map name -> tool record
    connected,  \* SimpleMCPClient: "new", "failed" or "connected"
    process,    \* MCPClient.process: "none" or "running"
    requestId,  \* MCPClient._request_id
    call,       \* the last tool invocation: its request and its outcome
    pending,     \* per caller, its call_tool coroutine on the SimpleMCPClient
    workflow, \* the LangGraph run: node reached, AgentState, stages executed
    external, \* real_mcp.external_mcp_manager, its connect() and its callers
    backend, \* mock_api: the ORDERS store and the last request it served
    rpc \* one RealMCPClient and the pipes of its server process

vars == <<doc, generated, tools, connected, process, requestId, call, pending, workflow, external, backend, rpc>>

\* ---------------------------------------------------------------- bounds

MaxOps == 2        \* operations per drawn document
MaxArgs == 2       \* entries of an argument mapping
MaxRequestId == 3  \* cap of MCPClient._request_id
MaxCallers == 2    \* coroutines calling one SimpleMCPClient at a time
MaxQuantity == 2    \* pizzas of one order (the backend accepts 1..10)
MaxPipe == 2        \* lines written by the server and not yet read
MaxToolCalls == 2  \* tool calls in one response of the decision logic

\* --------------------------------------------------------------- strings

\* Python's None where a string may stand: no character sequence equals it,
\* a character being one letter long
None == <<"None">>

\* a schema without a "type" key
NoType == "absent"

\* a schema that is no JSON object (true, a string, a list): no .get on it
NotObject == "not an object"

\* a schema's "type" given as a list of type names
TypeList == "a list of types"

Upper == <<"A", "B", "C", "D", "E", "F", "G", "H", "I", "J", "K", "L", "M",
           "N", "O", "P", "Q", "R", "S", "T", "U", "V", "W", "X", "Y", "Z">>
Lowers == <<"a", "b", "c", "d", "e", "f", "g", "h", "i", "j", "k", "l", "m",
            "n", "o", "p", "q", "r", "s", "t", "u", "v", "w", "x", "y", "z">>
Digits == {"0", "1", "2", "3", "4", "5", "6", "7", "8", "9"}

Range(s) == {s[i] : i \in 1..Len(s)}

\* str.lower() of one character
LowerChar(c) ==
    IF \E i \in 1..26 : Upper[i] = c
    THEN Lowers[CHOOSE i \in 1..26 : Upper[i] = c]
    ELSE c

\* str.lower()
Lower(s) == [i \in 1..Len(s) |-> LowerChar(s[i])]

\* s.startswith(p)
StartsWith(s, p) == Len(s) >= Len(p) /\ SubSeq(s, 1, Len(p)) = p

\* p in s (substring test), p non-empty
Contains(s, p) ==
    \E i \in 1..Len(s) : i + Len(p) - 1 <= Len(s) /\ SubSeq(s, i, i + Len(p) - 1) = p

\* s.replace(old, new): every non-overlapping occurrence, left to right
RECURSIVE Replace(_, _, _)
Replace(s, old, new) ==
    IF Len(s) < Len(old) \/ Len(old) = 0 THEN s
    ELSE IF SubSeq(s, 1, Len(old)) = old
         THEN new \o Replace(SubSeq(s, Len(old) + 1, Len(s)), old, new)
         ELSE <<s[1]>> \o Replace(Tail(s), old, new)

\* s.split(c) for a one-character separator
RECURSIVE Split(_, _)
Split(s, c) ==
    IF \A i \in 1..Len(s) : s[i] # c THEN <<s>>
    ELSE LET i == CHOOSE k \in 1..Len(s) : s[k] = c /\ \A j \in 1..(k - 1) : s[j] # c
         IN  <<SubSeq(s, 1, i - 1)>> \o Split(SubSeq(s, i + 1, Len(s)), c)

\* s.lstrip(chars), s.rstrip(chars), s.strip(chars)
RECURSIVE LStrip(_, _)
LStrip(s, chars) ==
    IF Len(s) > 0 /\ s[1] \in chars THEN LStrip(Tail(s), chars) ELSE s

RECURSIVE RStrip(_, _)
RStrip(s, chars) ==
    IF Len(s) > 0 /\ s[Len(s)] \in chars THEN RStrip(SubSeq(s, 1, Len(s) - 1), chars) ELSE s

Strip(s, chars) == RStrip(LStrip(s, chars), chars)

\* --------------------------------------------------------- the extractor

\* the method keys generate_mcp_server and connect accept
HttpMethods == {"get", "post", "put", "patch", "delete"}

\* the characters of a method key, for f"{method}_{path}"
MethodChars(m) ==
    CASE m = "get" -> <<"g", "e", "t">>
      [] m = "post" -> <<"p", "o", "s", "t">>
      [] m = "put" -> <<"p", "u", "t">>
      [] m = "patch" -> <<"p", "a", "t", "c", "h">>
      [] m = "delete" -> <<"d", "e", "l", "e", "t", "e">>
      [] m = "head" -> <<"h", "e", "a", "d">>
      [] OTHER -> <<"x">>

\* method.upper()
MethodUpper(m) ==
    CASE m = "get" -> "GET"
      [] m = "post" -> "POST"
      [] m = "put" -> "PUT"
      [] m = "patch" -> "PATCH"
      [] m = "delete" -> "DELETE"
      [] OTHER -> "OTHER"

\* the while loop of sanitize_function_name: drop leading "_" and digits
RECURSIVE StripLeading(_)
StripLeading(name) ==
    IF Len(name) > 0 /\ (name[1] = "_" \/ name[1] \in Digits)
    THEN StripLeading(Tail(name))
    ELSE name

sanitize_function_name(name) ==
    Lower(StripLeading(
        Replace(Replace(Replace(Replace(name, <<"-">>, <<"_">>),
                                <<"/">>, <<"_">>), <<"{">>, <<>>), <<"}">>, <<>>)))

\* the path-parameter names of extract_parameters: the segments that start
\* with "{", stripped of braces at both ends
IsBraceSegment(p) == StartsWith(p, <<"{">>)

PathParamNames(path) ==
    LET segs == SelectSeq(Split(path, "/"), IsBraceSegment)
    IN  [i \in 1..Len(segs) |-> Strip(segs[i], {"{", "}"})]

\* get_python_type, on the schema's "type" (NoType when the schema or the
\* key is absent)
get_python_type(type) ==
    CASE type = "string" -> "str"
      [] type = "integer" -> "int"
      [] type = "number" -> "float"
      [] type = "boolean" -> "bool"
      [] type = "array" -> "list"
      [] type = "object" -> "dict"
      [] OTHER -> "str"

\* the name "_body_ref" of the placeholder extract_parameters emits
BodyRefName == <<"_", "b", "o", "d", "y", "_", "r", "e", "f">>

\* one parameter descriptor (the dict literals of extract_parameters)
Param(name, type, required, default, location, ref) ==
    [name |-> name, type |-> type, required |-> required,
     default |-> default, location |-> location, ref |-> ref]

\* the descriptor dict built without its "default" entry
BodyPropsNoDefault(schema) ==
    [i \in 1..Len(schema.properties) |->
        Param(schema.properties[i].name,
              get_python_type(schema.properties[i].type),
              schema.properties[i].name \in schema.required,
              None, "body", None)]

\* the descriptors of the properties of a body schema
BodyProps(schema) ==
    [i \in 1..Len(schema.properties) |->
        Param(schema.properties[i].name,
              get_python_type(schema.properties[i].type),
              schema.properties[i].name \in schema.required,
              schema.properties[i].default, "body", None)]

IsQueryParam(p) == p["in"] = "query"

extract_parameters(operation, path) ==
    LET names == PathParamNames(path)
        pathPart == [i \in 1..Len(names) |->
                        Param(names[i], "str", TRUE, None, "path", None)]
        declared == SelectSeq(operation.parameters, IsQueryParam)
        queryPart == [i \in 1..Len(declared) |->
                        Param(declared[i].name, get_python_type(declared[i].type),
                              declared[i].required, None, "query", None)]
        schema == operation.requestBody
        bodyPart ==
            IF schema.ref # None
            THEN LET parts == Split(schema.ref, "/")
                 IN  <<Param(BodyRefName, NoType, FALSE, None, "body",
                             parts[Len(parts)])>>
            ELSE BodyProps(schema)
    IN  pathPart \o queryPart \o bodyPart

\* the statements of extract_parameters that raise: iterating "parameters":
\* null (TypeError), param["name"] of a query entry without a name
\* (KeyError), .get on a property schema that is no object (AttributeError),
\* type_mapping.get of a "type" that is a list (TypeError, unhashable)
HasBadProperty(schema) ==
    \E i \in 1..Len(schema.properties) : schema.properties[i].type \in {NotObject, TypeList}

ExtractRaises(operation) ==
    \/ operation.parameters_null
    \/ \E i \in 1..Len(operation.parameters) :
          /\ operation.parameters[i]["in"] = "query"
          /\ \/ operation.parameters[i].name = None
             \/ operation.parameters[i].type = TypeList
    \/ operation.requestBody.ref = None /\ HasBadProperty(operation.requestBody)

\* resolve_schema_ref(spec, "#/components/schemas/<name>"): the schema of
\* that name, or the empty schema when a step of the walk finds nothing
EmptySchema == [ref |-> None, properties |-> <<>>, required |-> {}]

resolve_schema_ref(spec, name) ==
    IF name \in DOMAIN spec.schemas THEN spec.schemas[name] ELSE EmptySchema

\* the "Resolve body references" loop of generate_tool_function
RECURSIVE ResolveParams(_, _)
ResolveParams(params, spec) ==
    IF params = <<>> THEN <<>>
    ELSE (IF Head(params).ref # None /\ Head(params).ref # <<>>
          THEN BodyProps(resolve_schema_ref(spec, Head(params).ref))
          ELSE <<Head(params)>>) \o ResolveParams(Tail(params), spec)

\* the statements of generate_tool_function that raise, given the output of
\* extract_parameters: .get on a property schema of the referenced schema
\* that is no object, and p['type'] of a placeholder the loop did not resolve
IsPlaceholder(p) == p.ref # None

ToolRaises(params, spec) ==
    \/ \E i \in 1..Len(params) :
          /\ params[i].ref # None /\ params[i].ref # <<>>
          /\ HasBadProperty(resolve_schema_ref(spec, params[i].ref))
    \/ \E i \in 1..Len(params) : params[i].ref = <<>>

IsRequired(p) == p.required
IsOptional(p) == ~p.required
IsPathLocated(p) == p.location = "path"
IsQueryLocated(p) == p.location = "query"
IsBodyLocated(p) == p.location = "body"

\* generate_tool_function building the signature from resolved_params as
\* they come, without the required/optional split
generate_tool_function_unsplit(func_name, method, path, operation, params, spec) ==
    LET resolved == ResolveParams(params, spec)
    IN  [name |-> func_name,
         method |-> method,
         path |-> path,
         params |-> resolved,
         signature |-> resolved,
         path_params |-> SelectSeq(resolved, IsPathLocated),
         query_params |-> SelectSeq(resolved, IsQueryLocated),
         body_params |-> SelectSeq(resolved, IsBodyLocated),
         readOnlyHint |-> (method = "get"),
         destructiveHint |-> (method \in {"delete", "patch"})]

\* generate_tool_function marking only DELETE as destructive
generate_tool_function_delete_only(func_name, method, path, operation, params, spec) ==
    LET resolved == ResolveParams(params, spec)
    IN  [name |-> func_name,
         method |-> method,
         path |-> path,
         params |-> resolved,
         signature |-> SelectSeq(resolved, IsRequired) \o SelectSeq(resolved, IsOptional),
         path_params |-> SelectSeq(resolved, IsPathLocated),
         query_params |-> SelectSeq(resolved, IsQueryLocated),
         body_params |-> SelectSeq(resolved, IsBodyLocated),
         readOnlyHint |-> (method = "get"),
         destructiveHint |-> (method = "delete")]

\* the tool function generate_tool_function emits, as the data that fixes
\* its behaviour: name, signature, URL template and the request it builds
generate_tool_function(func_name, method, path, operation, params, spec) ==
    LET resolved == ResolveParams(params, spec)
    IN  [name |-> func_name,
         method |-> method,
         path |-> path,
         params |-> resolved,
         signature |-> SelectSeq(resolved, IsRequired) \o SelectSeq(resolved, IsOptional),
         path_params |-> SelectSeq(resolved, IsPathLocated),
         query_params |-> SelectSeq(resolved, IsQueryLocated),
         body_params |-> SelectSeq(resolved, IsBodyLocated),
         readOnlyHint |-> (method = "get"),
         destructiveHint |-> (method \in {"delete", "patch"})]

\* the tool name generate_mcp_server derives for one operation
FuncName(entry) ==
    IF entry.operation.operationId # None /\ entry.operation.operationId # <<>>
    THEN sanitize_function_name(entry.operation.operationId)
    ELSE sanitize_function_name(MethodChars(entry.method) \o <<"_">> \o entry.path)

\* the loop of generate_mcp_server over spec["paths"]: one emitted function
\* per (path, method) entry whose method key is an HTTP method
RECURSIVE GenerateTools(_, _)
GenerateTools(entries, spec) ==
    IF entries = <<>> THEN <<>>
    ELSE LET e == Head(entries)
         IN  (IF e.method \in HttpMethods
              THEN <<generate_tool_function(FuncName(e), e.method, e.path, e.operation,
                                            extract_parameters(e.operation, e.path), spec)>>
              ELSE <<>>) \o GenerateTools(Tail(entries), spec)

generate_mcp_server(spec) == GenerateTools(spec.paths, spec)

\* the entries at which the loop of generate_mcp_server raises, the exception
\* leaving generate_mcp_server before anything is written
EntryRaises(e, spec) ==
    /\ e.method \in HttpMethods
    /\ \/ ExtractRaises(e.operation)
       \/ ToolRaises(extract_parameters(e.operation, e.path), spec)

GenerateRaises(spec) == \E i \in 1..Len(spec.paths) : EntryRaises(spec.paths[i], spec)

\* resolved_params of the entry generate_tool_function raised at (empty when
\* extract_parameters raised first)
FailedParams(spec) ==
    LET i == CHOOSE k \in 1..Len(spec.paths) :
                 /\ EntryRaises(spec.paths[k], spec)
                 /\ \A j \in 1..(k - 1) : ~EntryRaises(spec.paths[j], spec)
        e == spec.paths[i]
    IN  IF ExtractRaises(e.operation) THEN <<>>
        ELSE ResolveParams(extract_parameters(e.operation, e.path), spec)

\* the op_id SimpleMCPClient.connect registers an operation under
OpId(entry) ==
    IF entry.operation.operationId # None
    THEN entry.operation.operationId
    ELSE MethodChars(entry.method) \o <<"_">> \o entry.path

\* the loop of SimpleMCPClient.connect: self.tools[op_id] = {...}, a later
\* entry replacing an earlier one of the same op_id
RECURSIVE ConnectTools(_, _)
ConnectTools(entries, table) ==
    IF entries = <<>> THEN table
    ELSE LET e == Head(entries)
             tool == [name |-> OpId(e), method |-> MethodUpper(e.method),
                      path |-> e.path]
             next == IF e.method \in HttpMethods
                     THEN [n \in DOMAIN table \cup {OpId(e)} |->
                              IF n = OpId(e) THEN tool ELSE table[n]]
                     ELSE table
         IN  ConnectTools(Tail(entries), next)

\* ------------------------------------------------------------- documents

\* one entry of spec["paths"][path]: a key of the path item and its operation
Entry(path, method, operationId, parameters, requestBody) ==
    [path |-> path, method |-> method,
     operation |-> [operationId |-> operationId, parameters |-> parameters,
                    parameters_null |-> FALSE, requestBody |-> requestBody]]

\* an entry whose operation declares "parameters": null
EntryNullParameters(path, method, operationId, requestBody) ==
    [path |-> path, method |-> method,
     operation |-> [operationId |-> operationId, parameters |-> <<>>,
                    parameters_null |-> TRUE, requestBody |-> requestBody]]

RefSchema(ref) == [ref |-> ref, properties |-> <<>>, required |-> {}]

\* the document mock_api.py serves (FastAPI's operationIds), the sample
\* document of the end-to-end scenario
SampleSchemas ==
    (<<"O", "r", "d", "e", "r", "R", "e", "q", "u", "e", "s", "t">> :>
        [ref |-> None,
         properties |->
            <<[name |-> <<"p", "i", "z", "z", "a", "_", "t", "y", "p", "e">>, type |-> "string", default |-> None],
              [name |-> <<"s", "i", "z", "e">>, type |-> NoType, default |-> <<"l", "a", "r", "g", "e">>],
              [name |-> <<"q", "u", "a", "n", "t", "i", "t", "y">>, type |-> "integer", default |-> <<"1">>],
              [name |-> <<"n", "o", "t", "e", "s">>, type |-> NoType, default |-> None]>>,
         required |-> {<<"p", "i", "z", "z", "a", "_", "t", "y", "p", "e">>}])

SampleDoc ==
    [paths |->
        <<Entry(<<"/", "m", "e", "n", "u">>, "get",
                <<"g", "e", "t", "_", "m", "e", "n", "u", "_", "m", "e", "n", "u", "_", "g", "e", "t">>,
                <<>>, EmptySchema),
          Entry(<<"/", "m", "e", "n", "u", "/", "{", "p", "i", "z", "z", "a", "_", "t", "y", "p", "e", "}">>,
                "get",
                <<"g", "e", "t", "_", "m", "e", "n", "u", "_", "i", "t", "e", "m", "_", "m", "e", "n", "u", "_", "_", "p", "i", "z", "z", "a", "_", "t", "y", "p", "e", "_", "_", "g", "e", "t">>,
                <<>>, EmptySchema),
          Entry(<<"/", "o", "r", "d", "e", "r", "s">>, "post",
                <<"c", "r", "e", "a", "t", "e", "_", "o", "r", "d", "e", "r", "_", "o", "r", "d", "e", "r", "s", "_", "p", "o", "s", "t">>,
                <<>>,
                RefSchema(<<"#", "/", "c", "o", "m", "p", "o", "n", "e", "n", "t", "s", "/", "s", "c", "h", "e", "m", "a", "s", "/", "O", "r", "d", "e", "r", "R", "e", "q", "u", "e", "s", "t">>)),
          Entry(<<"/", "o", "r", "d", "e", "r", "s", "/", "{", "o", "r", "d", "e", "r", "_", "i", "d", "}">>,
                "get",
                <<"g", "e", "t", "_", "o", "r", "d", "e", "r", "_", "o", "r", "d", "e", "r", "s", "_", "_", "o", "r", "d", "e", "r", "_", "i", "d", "_", "_", "g", "e", "t">>,
                <<>>, EmptySchema),
          Entry(<<"/", "o", "r", "d", "e", "r", "s", "/", "{", "o", "r", "d", "e", "r", "_", "i", "d", "}", "/", "c", "a", "n", "c", "e", "l">>,
                "patch",
                <<"c", "a", "n", "c", "e", "l", "_", "o", "r", "d", "e", "r", "_", "o", "r", "d", "e", "r", "s", "_", "_", "o", "r", "d", "e", "r", "_", "i", "d", "_", "_", "c", "a", "n", "c", "e", "l", "_", "p", "a", "t", "c", "h">>,
                <<>>, EmptySchema)>>,
     schemas |-> SampleSchemas]

\* documents drawn for the extractor: path templates with a token inside,
\* before and after other text, identifiers that differ only in characters
\* the sanitizer maps together, and a key that is no HTTP method
ExtractPaths ==
    {<<"/", "a", "/", "{", "x", "}", ".", "j">>, <<"/", "a", "/", "v", "{", "x", "}">>,
     <<"/", "a", "/", "{", "x", "}", "-", "{", "y", "}">>, <<"/", "{", "x", "}", "/", "{", "y", "}">>}

ExtractMethods == {"get", "post", "head"}

ExtractIds == {None, <<"a", "-", "b">>, <<"9", "/", "A", "_", "b">>}

ExtractPool ==
    {Entry(p, m, id, <<>>, EmptySchema) :
        p \in ExtractPaths, m \in ExtractMethods, id \in ExtractIds}

\* spec["paths"] is a dict of dicts: no (path, method) pair occurs twice and
\* the entries of one path are adjacent
IsPathsDict(entries) ==
    /\ \A i, j \in 1..Len(entries) :
          (entries[i].path = entries[j].path /\ entries[i].method = entries[j].method)
              => i = j
    /\ \A i, j, k \in 1..Len(entries) :
          (i < j /\ j < k /\ entries[i].path = entries[k].path)
              => entries[j].path = entries[i].path

ExtractDocs ==
    {SampleDoc} \cup
    {[paths |-> e, schemas |-> SampleSchemas] :
        e \in {s \in UNION {[1..k -> ExtractPool] : k \in 1..MaxOps} : IsPathsDict(s)}}

\* the document the invocations run against: a query parameter, a path
\* parameter, a $ref body, POST and PUT without a body, PATCH and DELETE
KeyX == <<"x">>
KeyN == <<"n">>
KeyS == <<"s">>

ShopSchemas ==
    (<<"O", "r", "d", "e", "r">> :>
        [ref |-> None,
         properties |->
            <<[name |-> KeyN, type |-> "string", default |-> None],
              [name |-> KeyS, type |-> "string", default |-> <<"L">>]>>,
         required |-> {KeyN}])

ShopDoc ==
    [paths |->
        <<Entry(<<"/", "s">>, "get", <<"l", "s">>,
                <<[name |-> KeyN, in |-> "query", required |-> FALSE, type |-> "string"]>>,
                EmptySchema),
          Entry(<<"/", "o">>, "post", <<"m", "k">>, <<>>,
                RefSchema(<<"#", "/", "c", "o", "m", "p", "o", "n", "e", "n", "t", "s", "/", "s", "c", "h", "e", "m", "a", "s", "/", "O", "r", "d", "e", "r">>)),
          Entry(<<"/", "o", "/", "{", "x", "}">>, "get", None, <<>>, EmptySchema),
          Entry(<<"/", "o", "/", "{", "x", "}">>, "delete", <<"r", "m">>, <<>>, EmptySchema),
          Entry(<<"/", "o", "/", "{", "x", "}", "/", "c">>, "patch", <<"c", "x">>, <<>>, EmptySchema),
          Entry(<<"/", "p">>, "post", <<"p", "p">>, <<>>, EmptySchema),
          Entry(<<"/", "u", "/", "{", "x", "}">>, "put", <<"u", "p">>, <<>>, EmptySchema)>>,
     schemas |-> ShopSchemas]

InvokeDocs == {ShopDoc}

\* documents drawn for the parameter blocks: $ref bodies (canonical, with a
\* missing target, under another root, ending in "/"), inline bodies, query
\* parameters, and blocks that are malformed or incomplete
KeyQ == <<"q">>
PathO == <<"/", "o">>
PathOX == <<"/", "o", "/", "{", "x", "}">>

Property(name, type, default) == [name |-> name, type |-> type, default |-> default]

InlineSchema(properties, required) ==
    [ref |-> None, properties |-> properties, required |-> required]

Parameter(name, location, required, type) ==
    [name |-> name, in |-> location, required |-> required, type |-> type]

SchemaPool ==
    {Entry(PathO, "post", None, <<>>,
           RefSchema(<<"#", "/", "c", "o", "m", "p", "o", "n", "e", "n", "t", "s", "/", "s", "c", "h", "e", "m", "a", "s", "/", "O", "r", "d", "e", "r">>)),
     Entry(PathOX, "post", None, <<Parameter(KeyQ, "query", FALSE, "integer")>>,
           RefSchema(<<"#", "/", "c", "o", "m", "p", "o", "n", "e", "n", "t", "s", "/", "s", "c", "h", "e", "m", "a", "s", "/", "O", "r", "d", "e", "r">>)),
     Entry(PathO, "put", None, <<>>,
           RefSchema(<<"#", "/", "c", "o", "m", "p", "o", "n", "e", "n", "t", "s", "/", "s", "c", "h", "e", "m", "a", "s", "/", "G", "o", "n", "e">>)),
     Entry(PathOX, "put", None, <<>>,
           RefSchema(<<"#", "/", "d", "e", "f", "i", "n", "i", "t", "i", "o", "n", "s", "/", "O", "r", "d", "e", "r">>)),
     Entry(PathO, "patch", None, <<>>,
           RefSchema(<<"o", ".", "j", "s", "o", "n", "#", "/">>)),
     Entry(PathO, "get", None, <<Parameter(None, "query", FALSE, "string")>>,
           EmptySchema),
     EntryNullParameters(PathOX, "get", None, EmptySchema),
     Entry(PathO, "delete", None,
           <<Parameter(KeyQ, "query", FALSE, NoType),
             Parameter(KeyS, "header", TRUE, "string")>>,
           EmptySchema),
     Entry(PathOX, "patch", None, <<Parameter(KeyQ, "query", FALSE, "boolean")>>,
           InlineSchema(<<Property(KeyS, "string", <<"L">>),
                          Property(KeyN, "integer", None)>>, {KeyN})),
     Entry(PathOX, "delete", None, <<>>,
           InlineSchema(<<Property(KeyN, NotObject, None)>>, {})),
     Entry(<<"/", "p">>, "post", None,
           <<Parameter(KeyQ, "query", TRUE, "integer")>>, EmptySchema),
     Entry(<<"/", "p">>, "get", None,
           <<Parameter(KeyQ, "query", FALSE, TypeList)>>, EmptySchema),
     Entry(<<"/", "p">>, "put", None, <<>>,
           InlineSchema(<<Property(KeyN, TypeList, None)>>, {KeyN})),
     Entry(<<"/", "p">>, "delete", None,
           <<Parameter(KeyQ, "query", FALSE, "weird"),
             Parameter(KeyN, "query", TRUE, "number"),
             Parameter(KeyS, "path", TRUE, "string")>>, EmptySchema)}

SchemaDocs ==
    {SampleDoc} \cup
    {[paths |-> e, schemas |-> ShopSchemas] :
        e \in {s \in UNION {[1..k -> SchemaPool] : k \in 1..MaxOps} : IsPathsDict(s)}}

\* ------------------------------------------------------------ invocation

\* argument mappings: dicts in insertion order, as <<key, value>> pairs
ArgKeys == {KeyX, KeyN, KeyS}
ArgValues == {<<"7">>, None}

HasKey(args, k) == \E i \in 1..Len(args) : args[i][1] = k
Keys(args) == {args[i][1] : i \in 1..Len(args)}
ValueOf(args, k) == args[CHOOSE i \in 1..Len(args) : args[i][1] = k][2]

ArgMaps ==
    {a \in UNION {[1..k -> ArgKeys \X ArgValues] : k \in 0..MaxArgs} :
        \A i, j \in 1..Len(a) : a[i][1] = a[j][1] => i = j}

\* str(value)
Str(v) == IF v = None THEN <<"N", "o", "n", "e">> ELSE v

\* what the backend may do with one request
Outcomes == {"json_2xx", "text_2xx", "status_404", "status_500", "refused", "timeout"}

StatusOf(outcome) ==
    CASE outcome = "status_404" -> 404
      [] outcome = "status_500" -> 500
      [] OTHER -> 200

\* one HTTP request as handed to httpx: the params= and json= keywords are
\* either not passed or carry a mapping
Request(method, url, has_params, params, has_json, json) ==
    [method |-> method, url |-> url, has_params |-> has_params, params |-> params,
     has_json |-> has_json, json |-> json]

NoRequest == Request("NONE", <<>>, FALSE, <<>>, FALSE, <<>>)

\* the JSON text a call returns: the backend's payload, or an object with
\* "error" and, for HTTPStatusError only, "status_code"
Result(kind, error, detail, has_status_code, status_code) ==
    [kind |-> kind, error |-> error, detail |-> detail,
     has_status_code |-> has_status_code, status_code |-> status_code]

NoResult == Result("none", "", <<>>, FALSE, 0)

\* JSON texts and values. A value is an object without nesting: its members
\* in order, each a string, a number (the literal Python writes for it) or
\* null.
Member(key, type, text) == [key |-> key, type |-> type, text |-> text]

Quote == "\""
Backslash == "\\"
Newline == "\n"
Whitespace == {" ", Newline}

\* the string escapes of json.dumps that the drawn texts need
RECURSIVE EscapeString(_)
EscapeString(s) ==
    IF s = <<>> THEN <<>>
    ELSE (CASE Head(s) = Quote -> <<Backslash, Quote>>
            [] Head(s) = Backslash -> <<Backslash, Backslash>>
            [] Head(s) = Newline -> <<Backslash, "n">>
            [] OTHER -> <<Head(s)>>) \o EscapeString(Tail(s))

Quoted(s) == <<Quote>> \o EscapeString(s) \o <<Quote>>

ScalarText(m) ==
    CASE m.type = "string" -> Quoted(m.text)
      [] m.type = "number" -> m.text
      [] OTHER -> <<"n", "u", "l", "l">>

RECURSIVE JoinMembers(_, _, _, _)
JoinMembers(value, indent, colon, comma) ==
    IF value = <<>> THEN <<>>
    ELSE indent \o Quoted(Head(value).key) \o colon \o ScalarText(Head(value))
            \o (IF Tail(value) = <<>> THEN <<>> ELSE comma)
            \o JoinMembers(Tail(value), indent, colon, comma)

\* the backend's serializer: json.dumps(..., separators=(",", ":"))
Compact(value) == <<"{">> \o JoinMembers(value, <<>>, <<":">>, <<",">>) \o <<"}">>

\* json.dumps writing strings between quotes as they are
DumpsUnescaped(value) ==
    IF value = <<>> THEN <<"{", "}">>
    ELSE LET raw == [i \in 1..Len(value) |->
                        IF value[i].type = "string"
                        THEN Member(value[i].key, "number",
                                    <<Quote>> \o value[i].text \o <<Quote>>)
                        ELSE value[i]]
         IN  <<"{", Newline>>
                \o JoinMembers(raw, <<" ", " ">>, <<":", " ">>, <<",", Newline>>)
                \o <<Newline, "}">>

\* json.dumps(value, indent=2)
Dumps(value) ==
    IF value = <<>> THEN <<"{", "}">>
    ELSE <<"{", Newline>>
            \o JoinMembers(value, <<" ", " ">>, <<":", " ">>, <<",", Newline>>)
            \o <<Newline, "}">>

\* response.json(): json.loads of the body, for texts that are an object
\* or no JSON at all. A scan returns the text read and the next position.
Scan(ok, type, text, next) == [ok |-> ok, type |-> type, text |-> text, next |-> next]

ScanFails == Scan(FALSE, "null", <<>>, 0)

Parsed(ok, value) == [ok |-> ok, value |-> value]

RECURSIVE SkipWhitespace(_, _)
SkipWhitespace(t, i) ==
    IF i <= Len(t) /\ t[i] \in Whitespace THEN SkipWhitespace(t, i + 1) ELSE i

\* from the character after the opening quote to the closing quote
RECURSIVE ScanString(_, _, _)
ScanString(t, i, acc) ==
    IF i > Len(t) \/ t[i] = Newline THEN ScanFails
    ELSE IF t[i] = Quote THEN Scan(TRUE, "string", acc, i + 1)
    ELSE IF t[i] = Backslash
         THEN IF i + 1 > Len(t) THEN ScanFails
              ELSE IF t[i + 1] \in {Quote, Backslash}
                   THEN ScanString(t, i + 2, Append(acc, t[i + 1]))
              ELSE IF t[i + 1] = "n" THEN ScanString(t, i + 2, Append(acc, Newline))
              ELSE ScanFails
    ELSE ScanString(t, i + 1, Append(acc, t[i]))

NumberChars == Digits \cup {"-", "."}

RECURSIVE ScanNumber(_, _, _)
ScanNumber(t, i, acc) ==
    IF i <= Len(t) /\ t[i] \in NumberChars THEN ScanNumber(t, i + 1, Append(acc, t[i]))
    ELSE IF acc # <<>> /\ acc[Len(acc)] \in Digits THEN Scan(TRUE, "number", acc, i)
    ELSE ScanFails

ScanValue(t, i) ==
    IF i > Len(t) THEN ScanFails
    ELSE IF t[i] = Quote THEN ScanString(t, i + 1, <<>>)
    ELSE IF i + 3 <= Len(t) /\ SubSeq(t, i, i + 3) = <<"n", "u", "l", "l">>
         THEN Scan(TRUE, "null", <<>>, i + 4)
    ELSE IF t[i] \in Digits \cup {"-"} THEN ScanNumber(t, i, <<>>)
    ELSE ScanFails

\* dict assignment: a repeated key keeps its place and takes the new value
PutMember(value, m) ==
    IF \E i \in 1..Len(value) : value[i].key = m.key
    THEN [i \in 1..Len(value) |-> IF value[i].key = m.key THEN m ELSE value[i]]
    ELSE Append(value, m)

RECURSIVE ScanMembers(_, _, _)
ScanMembers(t, i, acc) ==
    IF i > Len(t) \/ t[i] # Quote THEN Parsed(FALSE, <<>>)
    ELSE LET k == ScanString(t, i + 1, <<>>)
             c == SkipWhitespace(t, k.next)
             v == ScanValue(t, SkipWhitespace(t, c + 1))
             e == SkipWhitespace(t, v.next)
         IN  IF ~k.ok \/ c > Len(t) THEN Parsed(FALSE, <<>>)
             ELSE IF t[c] # ":" \/ ~v.ok \/ e > Len(t) THEN Parsed(FALSE, <<>>)
             ELSE IF t[e] = ","
                  THEN ScanMembers(t, SkipWhitespace(t, e + 1),
                                   PutMember(acc, Member(k.text, v.type, v.text)))
             ELSE IF t[e] = "}" /\ SkipWhitespace(t, e + 1) > Len(t)
                  THEN Parsed(TRUE, PutMember(acc, Member(k.text, v.type, v.text)))
             ELSE Parsed(FALSE, <<>>)

Loads(t) ==
    LET i == SkipWhitespace(t, 1)
        j == SkipWhitespace(t, i + 1)
    IN  IF i > Len(t) \/ j > Len(t) THEN Parsed(FALSE, <<>>)
        ELSE IF t[i] # "{" THEN Parsed(FALSE, <<>>)
        ELSE IF t[j] = "}"
             THEN Parsed(SkipWhitespace(t, j + 1) > Len(t), <<>>)
        ELSE ScanMembers(t, j, <<>>)

\* the body behind an outcome when the scenario does not choose one
BodyOf(outcome) ==
    CASE outcome = "json_2xx" -> <<"{", "}">>
      [] outcome = "text_2xx" -> <<"O", "K">>
      [] OTHER -> <<>>

\* the try/except with "except Exception" placed first: HTTPStatusError is
\* caught by it and the status code is lost
NormalizeGenericFirst(outcome) ==
    CASE outcome = "json_2xx" -> Result("payload", "", <<>>, FALSE, 0)
      [] outcome \in {"status_404", "status_500"} ->
            Result("error", "http_status", <<>>, FALSE, 0)
      [] outcome = "text_2xx" -> Result("error", "json_decode", <<>>, FALSE, 0)
      [] outcome = "refused" -> Result("error", "connect", <<>>, FALSE, 0)
      [] OTHER -> Result("error", "timeout", <<>>, FALSE, 0)

\* the try/except around the HTTP call (SimpleMCPClient.call_tool and the
\* emitted functions share it): raise_for_status, response.json(), and the
\* two except clauses
NormalizeResponse(outcome, body) ==
    CASE outcome \in {"status_404", "status_500"} ->
            Result("error", "http_status", <<>>, TRUE, StatusOf(outcome))
      [] outcome = "refused" -> Result("error", "connect", <<>>, FALSE, 0)
      [] outcome = "timeout" -> Result("error", "timeout", <<>>, FALSE, 0)
      [] OTHER ->
            IF Loads(body).ok
            THEN Result("payload", "", Dumps(Loads(body).value), FALSE, 0)
            ELSE Result("error", "json_decode", <<>>, FALSE, 0)

Normalize(outcome) == NormalizeResponse(outcome, BodyOf(outcome))

\* one invocation: attempts counts the requests handed to httpx, one
\* "await client.<method>(...)" when the call gets that far
Call(client, tool, args, sent, request, outcome, result, raised) ==
    [client |-> client, tool |-> tool, args |-> args, sent |-> sent,
     attempts |-> IF sent THEN 1 ELSE 0, body |-> BodyOf(outcome),
     request |-> request, outcome |-> outcome, result |-> result, raised |-> raised]

NoCall == Call("none", <<>>, <<>>, FALSE, NoRequest, "none", NoResult, FALSE)

\* the substitution loop of SimpleMCPClient.call_tool over arguments.items()
RECURSIVE Substitute(_, _)
Substitute(path, args) ==
    IF args = <<>> THEN path
    ELSE LET token == <<"{">> \o Head(args)[1] \o <<"}">>
         IN  Substitute(IF Contains(path, token)
                        THEN Replace(path, token, Str(Head(args)[2]))
                        ELSE path,
                        Tail(args))

\* the request SimpleMCPClient.call_tool issues for a registered tool
SimpleRequest(tool, arguments) ==
    LET url == Substitute(tool.path, arguments)
    IN  CASE tool.method = "GET" -> Request("GET", url, TRUE, arguments, FALSE, <<>>)
          [] tool.method = "POST" -> Request("POST", url, FALSE, <<>>, TRUE, arguments)
          [] tool.method = "PATCH" -> Request("PATCH", url, FALSE, <<>>, TRUE, arguments)
          [] tool.method = "DELETE" -> Request("DELETE", url, FALSE, <<>>, FALSE, <<>>)
          [] OTHER -> Request(tool.method, url, FALSE, <<>>, TRUE, arguments)

\* the value a parameter of an emitted function is bound to: the argument,
\* or the default of the signature
Bound(p, args) == IF HasKey(args, p.name) THEN ValueOf(args, p.name) ELSE p.default

\* the emitted "url = BASE_URL + ..." expression: each path parameter's
\* token replaced by str(argument)
RECURSIVE GenUrl(_, _, _)
GenUrl(template, path_params, args) ==
    IF path_params = <<>> THEN template
    ELSE GenUrl(Replace(template,
                        <<"{">> \o Head(path_params).name \o <<"}">>,
                        Str(Bound(Head(path_params), args))),
                Tail(path_params), args)

\* the emitted "if <name> is not None: params[<name>] = <name>" lines and the
\* emitted payload dict with its "if v is not None" filter
RECURSIVE NotNone(_, _)
NotNone(params, args) ==
    IF params = <<>> THEN <<>>
    ELSE (IF Bound(Head(params), args) # None
          THEN <<<<Head(params).name, Bound(Head(params), args)>>>>
          ELSE <<>>) \o NotNone(Tail(params), args)

\* the emitted http_call refers to payload, which the emitted code assigns
\* only when the operation has body parameters
PayloadUndefined(fn) ==
    /\ fn.body_params = <<>>
    /\ \/ fn.method \in {"post", "put"}

\* the request an emitted function issues
GenRequest(fn, args) ==
    LET url == GenUrl(fn.path, fn.path_params, args)
        params == NotNone(fn.query_params, args)
        payload == NotNone(fn.body_params, args)
    IN  CASE fn.method = "get" ->
                Request("GET", url, fn.query_params # <<>>, params, FALSE, <<>>)
          [] fn.method = "post" -> Request("POST", url, FALSE, <<>>, TRUE, payload)
          [] fn.method = "patch" ->
                Request("PATCH", url, FALSE, <<>>, fn.body_params # <<>>, payload)
          [] fn.method = "delete" -> Request("DELETE", url, FALSE, <<>>, FALSE, <<>>)
          [] OTHER -> Request("PUT", url, FALSE, <<>>, TRUE, payload)

\* a call Python accepts for the emitted signature: every required parameter
\* bound, no keyword the signature lacks
Accepts(fn, args) ==
    /\ \A i \in 1..Len(fn.signature) :
          fn.signature[i].required => HasKey(args, fn.signature[i].name)
    /\ \A k \in Keys(args) : \E i \in 1..Len(fn.signature) : fn.signature[i].name = k

\* ---------------------------------------------------------------- actions

\* a message of AgentState["messages"]: HumanMessage, AIMessage (with the
\* tool calls it requests) or ToolMessage (with the id it answers)
Message(type, tool_calls, tool_call_id, content) ==
    [type |-> type, tool_calls |-> tool_calls, tool_call_id |-> tool_call_id,
     content |-> content]

ToolCall(id, name) == [id |-> id, name |-> name]

\* state["order_info"]: what json.loads gave, a dict (its members) or a list
OrderInfo(kind, empty, value) == [kind |-> kind, empty |-> empty, value |-> value]

EmptyOrderInfo == OrderInfo("dict", TRUE, <<>>)

\* the state run_conversation starts the graph with, before build_workflow
NoWorkflow ==
    [node |-> "unbuilt", messages |-> <<Message("human", <<>>, "", <<>>)>>,
     order_info |-> EmptyOrderInfo, current_agent |-> "", completed |-> FALSE,
     pizza_tools |-> {}, ran |-> <<>>]

\* the callers sharing one SimpleMCPClient; a coroutine is "idle" (not in
\* call_tool), "awaiting" (suspended at "await client.<method>") or "done"
\* (returned, the text not yet taken)
Callers == 1..MaxCallers

Pending(phase, c) == [phase |-> phase, call |-> c]

\* the module-level external_mcp_manager before any caller: None. A handle
\* is "unset" (None), "connecting" (the wrapper assigned, its connect()
\* awaited) or "connected"; answered records what each server's connection
\* did
ExternalCaller(phase, early) == [phase |-> phase, early |-> early]

LastOperation(op, method, after_connect) ==
    [op |-> op, method |-> method, after_connect |-> after_connect]

NoExternal ==
    [manager |-> FALSE, step |-> "none",
     filesystem |-> "unset", memory |-> "unset", calendar |-> "unset",
     connected |-> FALSE, success |-> FALSE,
     answered |-> [filesystem |-> "pending", memory |-> "pending", calendar |-> "pending"],
     callers |-> [c \in Callers |-> ExternalCaller("idle", FALSE)],
     last |-> LastOperation("none", "none", FALSE)]

\* the mock backend before any request: ORDERS = {}. cancelled is the set
\* of order ids whose stored order has been cancelled, last the request
\* served last and whether it changed the store
ServedRequest(op, order_id, status, before, after) ==
    [op |-> op, order_id |-> order_id, status |-> status, changed |-> (before # after)]

NoOrders ==
    [ORDERS |-> <<>>, cancelled |-> {}, last |-> ServedRequest("none", "", 0, <<>>, <<>>)]

\* one line of the server's stdout: a response or an error response to the
\* request id, a notification of the server (a JSON object with a method and
\* no id), a log line (no JSON), or the end of the stream
Line(kind, id) == [kind |-> kind, id |-> id]

\* what _send_request returned: None, {} or the "result" member of a
\* response, which is the answer to the request of
Value(kind, of) == [kind |-> kind, of |-> of]

Returned(id, line, value) == [id |-> id, line |-> line, value |-> value]

\* a RealMCPClient whose server process has been started: _request_id = 0,
\* nothing written to either pipe
NoRpc ==
    [request_id |-> 0, running |-> TRUE, reading |-> FALSE,
     stdin |-> <<>>, stdout |-> <<>>, unanswered |-> {},
     last |-> Returned(0, Line("none", 0), Value("none", 0))]

NotGenerated == [done |-> FALSE, raised |-> FALSE, tools |-> <<>>, failed |-> <<>>]

InitClients ==
    /\ generated = NotGenerated
    /\ tools = <<>>
    /\ connected = "new"
    /\ process = "none"
    /\ requestId = 0
    /\ call = NoCall
    /\ workflow = NoWorkflow
    /\ rpc = NoRpc
    /\ backend = NoOrders
    /\ external = NoExternal
    /\ pending = [c \in Callers |-> Pending("idle", NoCall)]

Init == doc \in InvokeDocs /\ InitClients

InitExtract == doc \in ExtractDocs /\ InitClients

InitSchema == doc \in SchemaDocs /\ InitClients

\* generate_mcp_server(spec, ...)
GenerateServer ==
    /\ ~generated.done
    /\ ~GenerateRaises(doc)
    /\ generated' = [done |-> TRUE, raised |-> FALSE,
                     tools |-> generate_mcp_server(doc), failed |-> <<>>]
    /\ UNCHANGED <<rpc, backend, external, workflow, pending, doc, tools, connected, process, requestId, call>>

\* generate_mcp_server(spec, ...) raising inside its loop: no file is written
GenerateServerRaises ==
    /\ ~generated.done
    /\ GenerateRaises(doc)
    /\ generated' = [done |-> TRUE, raised |-> TRUE, tools |-> <<>>,
                     failed |-> FailedParams(doc)]
    /\ UNCHANGED <<rpc, backend, external, workflow, pending, doc, tools, connected, process, requestId, call>>

\* SimpleMCPClient.connect(), the document fetched and parsed
ConnectOk ==
    /\ connected # "connected"
    /\ tools' = ConnectTools(doc.paths, tools)
    /\ connected' = "connected"
    /\ UNCHANGED <<rpc, backend, external, workflow, pending, doc, generated, process, requestId, call>>

\* SimpleMCPClient.connect(), the fetch or the parse raising: the except
\* clause prints and the table is left as it is
ConnectFail ==
    /\ connected = "new"
    /\ connected' = "failed"
    /\ UNCHANGED <<rpc, backend, external, workflow, pending, doc, generated, tools, process, requestId, call>>

\* the tool names a caller may ask for: every registered or emitted name and
\* one that no document declares
UnknownName == <<"n", "o", "p", "e">>

CallNames ==
    {OpId(doc.paths[i]) : i \in 1..Len(doc.paths)}
        \cup {FuncName(doc.paths[i]) : i \in 1..Len(doc.paths)}
        \cup {UnknownName}

\* one invocation at a time: a call starts once the previous one has returned
Idle == call = NoCall

\* call_tool without the "if not tool" return: the unknown name is requested
\* from the backend as a path
CallToolNotFoundUnchecked(tool_name, arguments) ==
    /\ Idle
    /\ tool_name \notin DOMAIN tools
    /\ call' = Call("simple", tool_name, arguments, TRUE,
                    Request("GET", <<"/">> \o tool_name, TRUE, arguments, FALSE, <<>>),
                    "status_404", Normalize("status_404"), FALSE)
    /\ UNCHANGED <<rpc, backend, external, workflow, pending, doc, generated, tools, connected, process, requestId>>

\* SimpleMCPClient.call_tool(tool_name, arguments), unknown tool
CallToolNotFound(tool_name, arguments) ==
    /\ Idle
    /\ tool_name \notin DOMAIN tools
    /\ call' = Call("simple", tool_name, arguments, FALSE, NoRequest, "none",
                    Result("error", "tool_not_found", tool_name, FALSE, 0), FALSE)
    /\ UNCHANGED <<rpc, backend, external, workflow, pending, doc, generated, tools, connected, process, requestId>>

\* call_tool repeating the request once when the first attempt fails
CallToolHttpRetry(tool_name, arguments, outcome) ==
    /\ Idle
    /\ tool_name \in DOMAIN tools
    /\ call' = [Call("simple", tool_name, arguments, TRUE,
                     SimpleRequest(tools[tool_name], arguments), outcome,
                     Normalize(outcome), FALSE)
                    EXCEPT !.attempts = IF outcome \in {"json_2xx", "text_2xx"} THEN 1 ELSE 2]
    /\ UNCHANGED <<rpc, backend, external, workflow, pending, doc, generated, tools, connected, process, requestId>>

\* SimpleMCPClient.call_tool(tool_name, arguments), registered tool
CallToolHttp(tool_name, arguments, outcome) ==
    /\ Idle
    /\ tool_name \in DOMAIN tools
    /\ call' = Call("simple", tool_name, arguments, TRUE,
                    SimpleRequest(tools[tool_name], arguments), outcome,
                    Normalize(outcome), FALSE)
    /\ UNCHANGED <<rpc, backend, external, workflow, pending, doc, generated, tools, connected, process, requestId>>

\* a call of the i-th emitted function whose http_call names an unassigned
\* payload: NameError inside the try, caught by "except Exception"
GenCallNameError(i, args) ==
    /\ Idle
    /\ generated.done /\ i \in 1..Len(generated.tools)
    /\ Accepts(generated.tools[i], args)
    /\ PayloadUndefined(generated.tools[i])
    /\ call' = Call("generated", generated.tools[i].name, args, FALSE, NoRequest, "none",
                    Result("error", "name_error", <<>>, FALSE, 0), FALSE)
    /\ UNCHANGED <<rpc, backend, external, workflow, pending, doc, generated, tools, connected, process, requestId>>

\* a call of the i-th emitted function that reaches httpx
GenCallHttp(i, args, outcome) ==
    /\ Idle
    /\ generated.done /\ i \in 1..Len(generated.tools)
    /\ Accepts(generated.tools[i], args)
    /\ ~PayloadUndefined(generated.tools[i])
    /\ call' = Call("generated", generated.tools[i].name, args, TRUE,
                    GenRequest(generated.tools[i], args), outcome,
                    Normalize(outcome), FALSE)
    /\ UNCHANGED <<rpc, backend, external, workflow, pending, doc, generated, tools, connected, process, requestId>>

\* MCPClient.connect(): Popen, then the initialize and tools/list requests
StdioConnect ==
    /\ process = "none"
    /\ requestId + 2 <= MaxRequestId
    /\ process' = "running"
    /\ requestId' = requestId + 2
    /\ UNCHANGED <<rpc, backend, external, workflow, pending, doc, generated, tools, connected, call>>

\* MCPClient.disconnect()
StdioDisconnect ==
    /\ process = "running"
    /\ process' = "none"
    /\ UNCHANGED <<rpc, backend, external, workflow, pending, doc, generated, tools, connected, requestId, call>>

\* MCPClient.call_tool with no process: _send_request raises RuntimeError
\* before its try block, and call_tool has no handler
StdioCallNotConnected(tool_name, arguments) ==
    /\ Idle
    /\ process = "none"
    /\ call' = Call("stdio", tool_name, arguments, FALSE, NoRequest, "none",
                    NoResult, TRUE)
    /\ UNCHANGED <<rpc, backend, external, workflow, pending, doc, generated, tools, connected, process, requestId>>

\* MCPClient.call_tool with a process: one request line written, one line
\* read; reply is what that line holds
StdioReplies == {"text", "result", "nothing"}

StdioCall(tool_name, arguments, reply) ==
    /\ Idle
    /\ process = "running"
    /\ requestId < MaxRequestId
    /\ requestId' = requestId + 1
    /\ call' = Call("stdio", tool_name, arguments, FALSE, NoRequest, reply,
                    CASE reply = "text" -> Result("payload", "", <<>>, FALSE, 0)
                      [] reply = "result" -> Result("payload", "", <<>>, FALSE, 0)
                      [] OTHER -> Result("error", "no_response", <<>>, FALSE, 0),
                    FALSE)
    /\ UNCHANGED <<rpc, backend, external, workflow, pending, doc, generated, tools, connected, process>>

\* the caller takes the returned text (or the exception); the next
\* invocation starts from there
Return ==
    /\ call # NoCall
    /\ call' = NoCall
    /\ UNCHANGED <<rpc, backend, external, workflow, pending, doc, generated, tools, connected, process, requestId>>

StdioArgs == {a \in ArgMaps : Len(a) <= 1}

\* what concurrent callers ask for: two registered tools with a path
\* parameter and an unknown one, with the path argument given or not
ConcurrentNames == {<<"r", "m">>, <<"c", "x">>, UnknownName}

ConcurrentArgs == {<<>>} \cup {<<<<KeyX, v>>>> : v \in ArgValues}

ConcurrentOutcomes == {"json_2xx", "status_404", "timeout"}

\* call_tool writing the substituted path back into the tool record
InvokeStartShared(c, tool_name, arguments) ==
    /\ pending[c].phase = "idle"
    /\ tool_name \in DOMAIN tools
    /\ pending' = [pending EXCEPT
                      ![c] = Pending("awaiting",
                                     Call("simple", tool_name, arguments, TRUE,
                                          SimpleRequest(tools[tool_name], arguments),
                                          "none", NoResult, FALSE))]
    /\ tools' = [tools EXCEPT ![tool_name].path = Substitute(@, arguments)]
    /\ UNCHANGED <<rpc, backend, external, workflow, doc, generated, connected, process, requestId, call>>

\* call_tool up to its first suspension, unknown tool: it returns at once
InvokeNotFound(c, tool_name, arguments) ==
    /\ pending[c].phase = "idle"
    /\ tool_name \notin DOMAIN tools
    /\ pending' = [pending EXCEPT
                      ![c] = Pending("done",
                                     Call("simple", tool_name, arguments, FALSE, NoRequest,
                                          "none",
                                          Result("error", "tool_not_found", tool_name, FALSE, 0),
                                          FALSE))]
    /\ UNCHANGED <<rpc, backend, external, workflow, doc, generated, tools, connected, process, requestId, call>>

\* call_tool up to its first suspension, registered tool: the lookup, the
\* substitution into the local path and the request handed to httpx
InvokeStart(c, tool_name, arguments) ==
    /\ pending[c].phase = "idle"
    /\ tool_name \in DOMAIN tools
    /\ pending' = [pending EXCEPT
                      ![c] = Pending("awaiting",
                                     Call("simple", tool_name, arguments, TRUE,
                                          SimpleRequest(tools[tool_name], arguments),
                                          "none", NoResult, FALSE))]
    /\ UNCHANGED <<rpc, backend, external, workflow, doc, generated, tools, connected, process, requestId, call>>

\* the awaited request completes: raise_for_status, response.json() and the
\* except clauses, then the return
InvokeFinish(c, outcome) ==
    /\ pending[c].phase = "awaiting"
    /\ pending' = [pending EXCEPT
                      ![c] = Pending("done",
                                     [pending[c].call EXCEPT !.outcome = outcome,
                                                             !.body = BodyOf(outcome),
                                                             !.result = Normalize(outcome)])]
    /\ UNCHANGED <<rpc, backend, external, workflow, doc, generated, tools, connected, process, requestId, call>>

\* the caller takes the returned text
InvokeReturn(c) ==
    /\ pending[c].phase = "done"
    /\ pending' = [pending EXCEPT ![c] = Pending("idle", NoCall)]
    /\ UNCHANGED <<rpc, backend, external, workflow, doc, generated, tools, connected, process, requestId, call>>

Next ==
    \/ GenerateServer
    \/ ConnectOk
    \/ ConnectFail
    \/ Idle /\ \E n \in CallNames, a \in ArgMaps : CallToolNotFound(n, a)
    \/ Idle /\ \E n \in CallNames, a \in ArgMaps, o \in Outcomes : CallToolHttp(n, a, o)
    \/ Idle /\ \E i \in 1..Len(doc.paths), a \in ArgMaps : GenCallNameError(i, a)
    \/ Idle /\ \E i \in 1..Len(doc.paths), a \in ArgMaps, o \in Outcomes : GenCallHttp(i, a, o)
    \/ StdioConnect
    \/ StdioDisconnect
    \/ Idle /\ \E n \in CallNames, a \in StdioArgs : StdioCallNotConnected(n, a)
    \/ Idle /\ \E n \in CallNames, a \in StdioArgs, r \in StdioReplies : StdioCall(n, a, r)
    \/ Return

Spec == Init /\ [][Next]_vars

NextExtract == GenerateServer \/ ConnectOk \/ ConnectFail

SpecExtract == InitExtract /\ [][NextExtract]_vars

NextSchema == GenerateServer \/ GenerateServerRaises \/ ConnectOk

SpecSchema == InitSchema /\ [][NextSchema]_vars

\* the end-to-end scenario: the sample document, the arguments of an order
\* and the bodies the backend may answer a request with
KeyPizzaType == <<"p", "i", "z", "z", "a", "_", "t", "y", "p", "e">>
KeySize == <<"s", "i", "z", "e">>
KeyQuantity == <<"q", "u", "a", "n", "t", "i", "t", "y">>

SampleArgs ==
    {<<<<KeyPizzaType, p>>>> \o s \o q :
        p \in {<<"m", "a", "r", "g", "h", "e", "r", "i", "t", "a">>, <<"p", "e", "p", "p", "e", "r", "o", "n", "i">>},
        s \in {<<>>, <<<<KeySize, <<"l", "a", "r", "g", "e">>>>>>, <<<<KeySize, <<"s", "m", "a", "l", "l">>>>>>},
        q \in {<<>>, <<<<KeyQuantity, <<"2">>>>>>}}

\* order_data of create_order, the object the order routes answer with
OrderObject(order_id, pizza_type, size, quantity, total_price, eta_minutes, notes) ==
    <<Member(<<"o", "r", "d", "e", "r", "_", "i", "d">>, "string", order_id),
      Member(<<"s", "t", "a", "t", "u", "s">>, "string", <<"c", "o", "n", "f", "i", "r", "m", "e", "d">>),
      Member(KeyPizzaType, "string", pizza_type),
      Member(KeySize, "string", size),
      Member(KeyQuantity, "number", quantity),
      Member(<<"t", "o", "t", "a", "l", "_", "p", "r", "i", "c", "e">>, "number", total_price),
      Member(<<"e", "t", "a", "_", "m", "i", "n", "u", "t", "e", "s">>, "number", eta_minutes),
      notes>>

Notes(text) == Member(<<"n", "o", "t", "e", "s">>, "string", text)
NoNotes == Member(<<"n", "o", "t", "e", "s">>, "null", <<>>)

SampleOrder ==
    OrderObject(<<"a", "1", "b", "2", "c", "3", "d", "4">>, <<"m", "a", "r", "g", "h", "e", "r", "i", "t", "a">>, <<"l", "a", "r", "g", "e">>, <<"2">>, <<"2", "8", ".", "8">>, <<"3", "5">>, NoNotes)

\* the object cancel_order answers with
CancelObject(order_id) ==
    <<Member(<<"m", "e", "s", "s", "a", "g", "e">>, "string",
             <<"O", "r", "d", "e", "r", " ">> \o order_id \o <<" ", "h", "a", "s", " ", "b", "e", "e", "n", " ", "c", "a", "n", "c", "e", "l", "l", "e", "d">>),
      Member(<<"o", "r", "d", "e", "r", "_", "i", "d">>, "string", order_id)>>

SampleValues ==
    {SampleOrder,
     OrderObject(<<"0", "f", "9", "e", "8", "d", "7", "c">>, <<"p", "e", "p", "p", "e", "r", "o", "n", "i">>, <<"s", "m", "a", "l", "l">>, <<"1">>, <<"1", "1", ".", "2">>, <<"3", "0">>,
                 Notes(<<"n", "o", " ", Quote, "o", "l", "i", "v", "e", "s", Quote>>)),
     OrderObject(<<"a", "1", "b", "2", "c", "3", "d", "4">>, <<"m", "a", "r", "g", "h", "e", "r", "i", "t", "a">>, <<"l", "a", "r", "g", "e">>, <<"2">>, <<"2", "8", ".", "8">>, <<"3", "5">>,
                 Notes(<<"r", "i", "n", "g", Backslash, "k", "n", "o", "c", "k", Newline, "t", "w", "i", "c", "e">>)),
     CancelObject(<<"0", "f", "9", "e", "8", "d", "7", "c">>),
     <<>>}

\* 2xx bodies: the values as the backend writes them, one written with
\* spaces, and two texts that are no JSON
SampleBodies ==
    {Compact(v) : v \in SampleValues}
        \cup {<<" ">> \o Dumps(SampleOrder) \o <<Newline>>}
        \cup {<<"O", "K">>, <<"{", Quote, "a", Quote, ":", "}">>}

SampleNames == {OpId(SampleDoc.paths[i]) : i \in 1..Len(SampleDoc.paths)}

InitSample == doc = SampleDoc /\ InitClients

\* SimpleMCPClient.call_tool, registered tool, the backend answering 2xx
\* with the given body
CallToolResponse(tool_name, arguments, body) ==
    /\ Idle
    /\ tool_name \in DOMAIN tools
    /\ call' = [Call("simple", tool_name, arguments, TRUE,
                     SimpleRequest(tools[tool_name], arguments),
                     IF Loads(body).ok THEN "json_2xx" ELSE "text_2xx",
                     NormalizeResponse("json_2xx", body), FALSE)
                    EXCEPT !.body = body]
    /\ UNCHANGED <<rpc, backend, external, workflow, pending, doc, generated, tools, connected, process, requestId>>

\* a call of the i-th emitted function, the backend answering 2xx with the
\* given body
GenCallResponse(i, args, body) ==
    /\ Idle
    /\ generated.done /\ i \in 1..Len(generated.tools)
    /\ Accepts(generated.tools[i], args)
    /\ ~PayloadUndefined(generated.tools[i])
    /\ call' = [Call("generated", generated.tools[i].name, args, TRUE,
                     GenRequest(generated.tools[i], args),
                     IF Loads(body).ok THEN "json_2xx" ELSE "text_2xx",
                     NormalizeResponse("json_2xx", body), FALSE)
                    EXCEPT !.body = body]
    /\ UNCHANGED <<rpc, backend, external, workflow, pending, doc, generated, tools, connected, process, requestId>>

NextSample ==
    \/ GenerateServer
    \/ ConnectOk
    \/ Idle /\ \E n \in SampleNames, a \in SampleArgs, b \in SampleBodies :
                  CallToolResponse(n, a, b)
    \/ Idle /\ \E i \in 1..Len(doc.paths), a \in SampleArgs, b \in SampleBodies :
                  GenCallResponse(i, a, b)
    \/ Return

SpecSample == InitSample /\ [][NextSample]_vars

NextConcurrent ==
    \/ ConnectOk
    \/ \E c \in Callers, n \in ConcurrentNames, a \in ConcurrentArgs : InvokeNotFound(c, n, a)
    \/ \E c \in Callers, n \in ConcurrentNames, a \in ConcurrentArgs : InvokeStart(c, n, a)
    \/ \E c \in Callers, o \in ConcurrentOutcomes : InvokeFinish(c, o)
    \/ \E c \in Callers : InvokeReturn(c)

SpecConcurrent == Init /\ [][NextConcurrent]_vars

\* -------------------------------------------------------------- workflow

\* json.loads(result) in PizzaAgent.process, for the texts a pizza tool
\* returns: an array, an object, or no JSON
JsonLoads(text) ==
    IF text # <<>> /\ Head(text) = "["
    THEN [ok |-> TRUE, info |-> OrderInfo("list", Len(text) <= 2, <<>>)]
    ELSE [ok |-> Loads(text).ok,
          info |-> OrderInfo("dict", Loads(text).value = <<>>, Loads(text).value)]

KeyOrderId == <<"o", "r", "d", "e", "r", "_", "i", "d">>

\* order_info.get("order_id") is truthy: a non-empty string, or a number
HasOrderId(info) ==
    \E i \in 1..Len(info.value) :
        /\ info.value[i].key = KeyOrderId
        /\ \/ info.value[i].type = "string" /\ info.value[i].text # <<>>
           \/ info.value[i].type = "number" /\ info.value[i].text # <<"0">>

CreateOrder == <<"c", "r", "e", "a", "t", "e", "_", "o", "r", "d", "e", "r">>

\* the names of SchedulingTools.get_tools()
SchedulingToolNames ==
    {<<"s", "c", "h", "e", "d", "u", "l", "e", "_", "d", "e", "l", "i", "v", "e", "r", "y">>,
     <<"c", "r", "e", "a", "t", "e", "_", "c", "a", "l", "e", "n", "d", "a", "r", "_", "e", "v", "e", "n", "t">>,
     <<"s", "a", "v", "e", "_", "o", "r", "d", "e", "r", "_", "r", "e", "c", "e", "i", "p", "t">>,
     <<"g", "e", "t", "_", "o", "r", "d", "e", "r", "_", "h", "i", "s", "t", "o", "r", "y">>,
     <<"s", "e", "n", "d", "_", "n", "o", "t", "i", "f", "i", "c", "a", "t", "i", "o", "n">>}

\* what the decision logic may ask for in the two stages: registered names
\* and one no stage has
PizzaRequestNames == {OpId(SampleDoc.paths[1]), OpId(SampleDoc.paths[3]), UnknownName}

SchedulingRequestNames ==
    {<<"s", "c", "h", "e", "d", "u", "l", "e", "_", "d", "e", "l", "i", "v", "e", "r", "y">>, <<"s", "e", "n", "d", "_", "n", "o", "t", "i", "f", "i", "c", "a", "t", "i", "o", "n">>, UnknownName}

\* response.tool_calls: up to MaxToolCalls calls, their ids distinct
ToolCalls(prefix, names) ==
    UNION {{[i \in 1..k |-> ToolCall(<<prefix, i>>, f[i])] : f \in [1..k -> names]} :
              k \in 0..MaxToolCalls}

\* the texts call_tool returns to the order-taking stage: an order, an order
\* whose order_id is empty, the two error objects, and an array the backend
\* answered with
ErrorText ==
    Dumps(<<Member(<<"e", "r", "r", "o", "r">>, "string", <<"A", "l", "l", " ", "c", "o", "n", "n", "e", "c", "t", "i", "o", "n", " ", "a", "t", "t", "e", "m", "p", "t", "s", " ", "f", "a", "i", "l", "e", "d">>)>>)

StatusErrorText ==
    Dumps(<<Member(<<"e", "r", "r", "o", "r">>, "string", <<"C", "l", "i", "e", "n", "t", " ", "e", "r", "r", "o", "r", " ", "'", "4", "0", "0", " ", "B", "a", "d", " ", "R", "e", "q", "u", "e", "s", "t", "'">>),
            Member(<<"s", "t", "a", "t", "u", "s", "_", "c", "o", "d", "e">>, "number", <<"4", "0", "0">>)>>)

ArrayText == <<"[", Newline, " ", " ", "1", Newline, "]">>

PizzaResults ==
    {Dumps(SampleOrder),
     Dumps(OrderObject(<<>>, <<"m", "a", "r", "g", "h", "e", "r", "i", "t", "a">>, <<"l", "a", "r", "g", "e">>, <<"1">>, <<"1", "4", ".", "4">>,
                       <<"3", "0">>, NoNotes)),
     ErrorText, StatusErrorText, ArrayText}

SchedulingResult == Dumps(<<Member(<<"s", "t", "a", "t", "u", "s">>, "string", <<"s", "c", "h", "e", "d", "u", "l", "e", "d">>)>>)

\* the loop over response.tool_calls: a ToolMessage for each call whose name
\* one of the stage's tools has, nothing for the others
RECURSIVE ToolMessages(_, _, _)
ToolMessages(tool_calls, results, names) ==
    IF tool_calls = <<>> THEN <<>>
    ELSE (IF Head(tool_calls).name \in names
          THEN <<Message("tool", <<>>, Head(tool_calls).id, Head(results))>>
          ELSE <<>>) \o ToolMessages(Tail(tool_calls), Tail(results), names)

\* the assignments to state["order_info"] in that loop
RECURSIVE RecordOrder(_, _, _, _)
RecordOrder(info, tool_calls, results, names) ==
    IF tool_calls = <<>> THEN info
    ELSE RecordOrder(IF /\ Head(tool_calls).name \in names
                        /\ Contains(Head(tool_calls).name, CreateOrder)
                        /\ JsonLoads(Head(results)).ok
                     THEN JsonLoads(Head(results)).info
                     ELSE info,
                     Tail(tool_calls), Tail(results), names)

FinalResponse(tool_calls) ==
    IF tool_calls = <<>> THEN <<>> ELSE <<Message("ai", <<>>, "", <<>>)>>

\* build_workflow: PizzaAgent.initialize connects the client and wraps the
\* tools it lists
BuildWorkflow ==
    /\ workflow.node = "unbuilt"
    /\ tools' = ConnectTools(doc.paths, tools)
    /\ connected' = "connected"
    /\ workflow' = [workflow EXCEPT !.node = "entry",
                                    !.pizza_tools = DOMAIN ConnectTools(doc.paths, tools)]
    /\ UNCHANGED <<rpc, backend, external, doc, generated, process, requestId, call, pending>>

\* build_workflow with the document out of reach: connect prints and the
\* order-taking stage has no tools
BuildWorkflowOffline ==
    /\ workflow.node = "unbuilt"
    /\ connected' = "failed"
    /\ workflow' = [workflow EXCEPT !.node = "entry", !.pizza_tools = DOMAIN tools]
    /\ UNCHANGED <<rpc, backend, external, doc, generated, tools, process, requestId, call, pending>>

\* pizza_node: PizzaAgent.process
PizzaProcess(tool_calls, results) ==
    /\ workflow.node = "entry"
    /\ Len(results) = Len(tool_calls)
    /\ workflow' =
          [workflow EXCEPT
              !.node = "pizza",
              !.messages = @ \o <<Message("ai", tool_calls, "", <<>>)>>
                             \o ToolMessages(tool_calls, results, workflow.pizza_tools)
                             \o FinalResponse(tool_calls),
              !.order_info = RecordOrder(@, tool_calls, results, workflow.pizza_tools),
              !.current_agent = "pizza",
              !.ran = Append(@, "pizza")]
    /\ UNCHANGED <<rpc, backend, external, doc, generated, tools, connected, process, requestId, call, pending>>

\* should_schedule, the conditional edge after the pizza node
ShouldSchedule ==
    /\ workflow.node = "pizza"
    /\ workflow' =
          [workflow EXCEPT
              !.node = IF workflow.order_info.empty THEN "end"
                       ELSE IF workflow.order_info.kind # "dict" THEN "raised"
                       ELSE IF HasOrderId(workflow.order_info) THEN "scheduling"
                       ELSE "end"]
    /\ UNCHANGED <<rpc, backend, external, doc, generated, tools, connected, process, requestId, call, pending>>

\* scheduling_node: SchedulingAgent.process, then the edge to END
SchedulingProcess(tool_calls) ==
    /\ workflow.node = "scheduling"
    /\ workflow' =
          [workflow EXCEPT
              !.node = "end",
              !.messages = @ \o (IF workflow.order_info.empty THEN <<>>
                                 ELSE <<Message("human", <<>>, "", <<>>)>>)
                             \o <<Message("ai", tool_calls, "", <<>>)>>
                             \o ToolMessages(tool_calls,
                                             [i \in 1..Len(tool_calls) |-> SchedulingResult],
                                             SchedulingToolNames)
                             \o FinalResponse(tool_calls),
              !.current_agent = "scheduling",
              !.completed = TRUE,
              !.ran = Append(@, "scheduling")]
    /\ UNCHANGED <<rpc, backend, external, doc, generated, tools, connected, process, requestId, call, pending>>

InitWorkflow == doc = SampleDoc /\ InitClients

NextWorkflow ==
    \/ BuildWorkflow
    \/ BuildWorkflowOffline
    \/ \E tc \in ToolCalls("p", PizzaRequestNames) :
          \E r \in [1..Len(tc) -> PizzaResults] : PizzaProcess(tc, r)
    \/ ShouldSchedule
    \/ \E tc \in ToolCalls("s", SchedulingRequestNames) : SchedulingProcess(tc)

SpecWorkflow == InitWorkflow /\ [][NextWorkflow]_vars

\* ------------------------------------------------ PizzaMCPTools._infer_parameters

\* the characters the pattern \w matches, among those of a path template
WordChars == Range(Upper) \cup Range(Lowers) \cup Digits \cup {"_"}

\* the length of the longest run of \w characters s starts with
RECURSIVE WordRun(_)
WordRun(s) == IF s # <<>> /\ Head(s) \in WordChars THEN 1 + WordRun(Tail(s)) ELSE 0

\* re.findall(r"\{(\w+)\}", path): the groups of the non-overlapping matches,
\* left to right
RECURSIVE FindTokens(_)
FindTokens(path) ==
    IF path = <<>> THEN <<>>
    ELSE LET n == WordRun(Tail(path))
         IN  IF /\ Head(path) = "{" /\ n >= 1
                /\ Len(path) >= n + 2 /\ path[n + 2] = "}"
             THEN <<SubSeq(path, 2, n + 1)>> \o FindTokens(SubSeq(path, n + 3, Len(path)))
             ELSE FindTokens(Tail(path))

\* the path part of _infer_parameters: the names it declares, all required
\* strings
infer_parameters(tool_info) ==
    LET path_params == FindTokens(tool_info.path)
    IN  [properties |-> {path_params[i] : i \in 1..Len(path_params)},
         required |-> path_params]

\* the keys the substitution loop of SimpleMCPClient.call_tool replaces, in
\* the order of arguments.items()
RECURSIVE SubstitutedKeys(_, _)
SubstitutedKeys(path, args) ==
    IF args = <<>> THEN <<>>
    ELSE LET token == <<"{">> \o Head(args)[1] \o <<"}">>
         IN  IF Contains(path, token)
             THEN <<Head(args)[1]>>
                      \o SubstitutedKeys(Replace(path, token, Str(Head(args)[2])), Tail(args))
             ELSE SubstitutedKeys(path, Tail(args))

\* ------------------------------------------------------ external manager

Answer(ok) == IF ok THEN "ok" ELSE "failed"

Handle(ok) == IF ok THEN "connected" ELSE "unset"

OtherVars == <<doc, generated, tools, connected, process, requestId, call, pending, workflow, backend, rpc>>

\* get_external_mcp with the global None: the manager is created and stored,
\* connect() runs to the first suspension, inside the filesystem server's
\* connect
GetExternalCreate(c) ==
    /\ ~external.manager
    /\ external.callers[c].phase = "idle"
    /\ external' = [external EXCEPT !.manager = TRUE, !.step = "filesystem",
                                    !.filesystem = "connecting",
                                    !.callers[c] = ExternalCaller("connecting", FALSE)]
    /\ UNCHANGED OtherVars

\* get_external_mcp with the global set: the manager is returned at once
GetExternalShared(c) ==
    /\ external.manager
    /\ external.callers[c].phase = "idle"
    /\ external' = [external EXCEPT
                       !.callers[c] = ExternalCaller("has_manager",
                                                     external.step # "returned")]
    /\ UNCHANGED OtherVars

\* connect() from the filesystem server's answer to the next suspension,
\* inside the memory server's connect
FilesystemDone(ok) ==
    /\ external.step = "filesystem"
    /\ external' = [external EXCEPT !.step = "memory",
                                    !.filesystem = Handle(ok),
                                    !.answered.filesystem = Answer(ok),
                                    !.memory = "connecting"]
    /\ UNCHANGED OtherVars

\* connect() counting the calendar server among the required ones
ConnectReturnsAllRequired(e, creator) ==
    LET success == /\ e.answered.filesystem = "ok" /\ e.answered.memory = "ok"
                   /\ e.answered.calendar = "ok"
    IN  [e EXCEPT !.step = "returned", !.connected = success, !.success = success,
                  !.callers[creator] = ExternalCaller("has_manager", FALSE)]

\* the statements of connect() after the calendar block: _connected is set
\* and success returned to get_external_mcp, which returns the manager
ConnectReturns(e, creator) ==
    LET success == e.answered.filesystem = "ok" /\ e.answered.memory = "ok"
    IN  [e EXCEPT !.step = "returned", !.connected = success, !.success = success,
                  !.callers[creator] = ExternalCaller("has_manager", FALSE)]

Creator == CHOOSE c \in Callers : external.callers[c].phase = "connecting"

\* connect() from the memory server's answer on: without calendar
\* credentials the calendar connect returns False without suspending and
\* connect() finishes; with them it suspends inside the calendar connect
MemoryDone(ok, credentials) ==
    /\ external.step = "memory"
    /\ external' =
          IF credentials
          THEN [external EXCEPT !.step = "calendar", !.memory = Handle(ok),
                                !.answered.memory = Answer(ok),
                                !.calendar = "connecting"]
          ELSE ConnectReturns([external EXCEPT !.memory = Handle(ok),
                                               !.answered.memory = Answer(ok),
                                               !.calendar = "unset",
                                               !.answered.calendar = "failed"],
                              Creator)
    /\ UNCHANGED OtherVars

\* connect() from the calendar server's answer to its return
CalendarDone(ok) ==
    /\ external.step = "calendar"
    /\ external' = ConnectReturns([external EXCEPT !.calendar = Handle(ok),
                                                   !.answered.calendar = Answer(ok)],
                                  Creator)
    /\ UNCHANGED OtherVars

\* ExternalMCPManager.save_order_receipt by a caller holding the manager
SaveOrderReceipt(c) ==
    /\ external.callers[c].phase = "has_manager"
    /\ external' = [external EXCEPT
                       !.last = LastOperation("save_order_receipt",
                                              IF external.filesystem # "unset"
                                              THEN "filesystem_mcp" ELSE "direct_write",
                                              external.step = "returned")]
    /\ UNCHANGED OtherVars

\* ExternalMCPManager.get_order_history by a caller holding the manager
GetOrderHistory(c) ==
    /\ external.callers[c].phase = "has_manager"
    /\ external' = [external EXCEPT
                       !.last = LastOperation("get_order_history",
                                              IF external.memory # "unset"
                                              THEN "memory_mcp" ELSE "filesystem_fallback",
                                              external.step = "returned")]
    /\ UNCHANGED OtherVars

NextExternal ==
    \/ \E c \in Callers : GetExternalCreate(c)
    \/ \E c \in Callers : GetExternalShared(c)
    \/ \E ok \in BOOLEAN : FilesystemDone(ok)
    \/ \E ok \in BOOLEAN, credentials \in BOOLEAN : MemoryDone(ok, credentials)
    \/ \E ok \in BOOLEAN : CalendarDone(ok)
    \/ \E c \in Callers : SaveOrderReceipt(c)
    \/ \E c \in Callers : GetOrderHistory(c)

SpecExternal == InitWorkflow /\ [][NextExternal]_vars

\* ------------------------------------------------------------ mock backend

\* MENU, the price of each pizza in cents
MENU == [margherita |-> 1200, pepperoni |-> 1400, quattro_formaggi |-> 1600,
         vegetarian |-> 1300]

\* PizzaSize and size_multiplier, the multiplier in tenths
size_multiplier == [small |-> 8, medium |-> 10, large |-> 12]

\* the pizzas asked for: two of the menu and one that is not on it
PizzaTypes == {"margherita", "pepperoni", "hawaiian"}

\* str(uuid.uuid4())[:8]: eight hexadecimal digits of a random UUID; nothing
\* keeps two orders from drawing the same eight digits
OrderIds == {"1f0c4a7e", "9ab2d310"}

UnknownOrderId == "00000000"

\* OrderRequest validation: quantity has ge=1 and le=10
ValidQuantity(quantity) == quantity >= 1 /\ quantity <= 10

order_data(order_id, pizza_type, size, quantity) ==
    [order_id |-> order_id, status |-> "confirmed", pizza_type |-> pizza_type,
     size |-> size, quantity |-> quantity,
     total_price |-> (MENU[pizza_type] * size_multiplier[size] * quantity) \div 10,
     eta_minutes |-> 25 + (quantity * 5)]

Store(orders, order_id, order) ==
    [id \in DOMAIN orders \cup {order_id} |-> IF id = order_id THEN order ELSE orders[id]]

BackendVars == <<doc, generated, tools, connected, process, requestId, call, pending, workflow, external, rpc>>

\* POST /orders: 422 from the request model, 400 for a pizza off the menu,
\* else the order stored under a fresh draw of order_id
create_order(pizza_type, size, quantity, order_id) ==
    /\ backend' =
          IF ~ValidQuantity(quantity)
          THEN [backend EXCEPT !.last = ServedRequest("create_order", "", 422, backend.ORDERS, backend.ORDERS)]
          ELSE IF pizza_type \notin DOMAIN MENU
          THEN [backend EXCEPT !.last = ServedRequest("create_order", "", 400, backend.ORDERS, backend.ORDERS)]
          ELSE LET stored == Store(backend.ORDERS, order_id,
                                   order_data(order_id, pizza_type, size, quantity))
               IN  [backend EXCEPT
                       !.ORDERS = stored,
                       !.last = ServedRequest("create_order", order_id, 200,
                                              backend.ORDERS, stored)]
    /\ UNCHANGED BackendVars

\* GET /orders/{order_id}
get_order(order_id) ==
    /\ backend' = [backend EXCEPT
                      !.last = ServedRequest("get_order", order_id,
                                             IF order_id \in DOMAIN backend.ORDERS
                                             THEN 200 ELSE 404,
                                             backend.ORDERS, backend.ORDERS)]
    /\ UNCHANGED BackendVars

\* PATCH /orders/{order_id}/cancel
cancel_order(order_id) ==
    /\ backend' =
          IF order_id \notin DOMAIN backend.ORDERS
          THEN [backend EXCEPT !.last = ServedRequest("cancel_order", order_id, 404,
                                                      backend.ORDERS, backend.ORDERS)]
          ELSE IF backend.ORDERS[order_id].status = "cancelled"
          THEN [backend EXCEPT !.last = ServedRequest("cancel_order", order_id, 400,
                                                      backend.ORDERS, backend.ORDERS)]
          ELSE LET stored == [backend.ORDERS EXCEPT ![order_id].status = "cancelled"]
               IN  [backend EXCEPT
                       !.ORDERS = stored,
                       !.cancelled = backend.cancelled \cup {order_id},
                       !.last = ServedRequest("cancel_order", order_id, 200,
                                              backend.ORDERS, stored)]
    /\ UNCHANGED BackendVars

NextBackend ==
    \/ \E pizza_type \in PizzaTypes, size \in DOMAIN size_multiplier,
          quantity \in 0..MaxQuantity, order_id \in OrderIds :
          create_order(pizza_type, size, quantity, order_id)
    \/ \E order_id \in OrderIds \cup {UnknownOrderId} : get_order(order_id)
    \/ \E order_id \in OrderIds \cup {UnknownOrderId} : cancel_order(order_id)

SpecBackend == InitWorkflow /\ [][NextBackend]_vars

\* ------------------------------------------------------- stdio JSON-RPC

RpcVars == <<doc, generated, tools, connected, process, requestId, call, pending, workflow, external, backend>>

IsRequest(message) == message.kind = "request"

IsNotification(message) == message.kind = "notification"

\* _send_request up to the read: the id is incremented and the request
\* written to the server's stdin; readline then blocks the client
SendRequest ==
    /\ ~rpc.reading
    /\ rpc.running
    /\ rpc.request_id < MaxRequestId
    /\ rpc' = [rpc EXCEPT !.request_id = rpc.request_id + 1,
                          !.stdin = Append(rpc.stdin, Line("request", rpc.request_id + 1)),
                          !.unanswered = rpc.unanswered \cup {rpc.request_id + 1},
                          !.reading = TRUE]
    /\ UNCHANGED RpcVars

\* _send_request with the process gone: None, no id drawn, nothing written
SendRequestNoProcess ==
    /\ ~rpc.reading
    /\ ~rpc.running
    /\ rpc' = [rpc EXCEPT !.last = Returned(0, Line("none", 0), Value("none", 0))]
    /\ UNCHANGED RpcVars

\* the statements of _send_request after readline: the value it returns for
\* the line it read
ValueOfLine(line) ==
    CASE line.kind = "response" -> Value("result", line.id)
      [] line.kind = "notification" -> Value("empty", 0)
      [] OTHER -> Value("none", 0)

\* readline returning the next line of the server's stdout
ReadLine ==
    /\ rpc.reading
    /\ rpc.stdout # <<>>
    /\ rpc' = [rpc EXCEPT !.reading = FALSE,
                          !.stdout = Tail(rpc.stdout),
                          !.last = Returned(rpc.request_id, Head(rpc.stdout),
                                            ValueOfLine(Head(rpc.stdout)))]
    /\ UNCHANGED RpcVars

\* readline returning "" at the end of the stream
ReadEndOfFile ==
    /\ rpc.reading
    /\ rpc.stdout = <<>>
    /\ ~rpc.running
    /\ rpc' = [rpc EXCEPT !.reading = FALSE,
                          !.last = Returned(rpc.request_id, Line("eof", 0),
                                            ValueOfLine(Line("eof", 0)))]
    /\ UNCHANGED RpcVars

\* _send_notification: a message without id written to the server's stdin
SendNotification ==
    /\ ~rpc.reading
    /\ rpc.running
    /\ Len(SelectSeq(rpc.stdin, IsNotification)) < MaxRequestId
    /\ rpc' = [rpc EXCEPT !.stdin = Append(rpc.stdin, Line("notification", 0))]
    /\ UNCHANGED RpcVars

\* the server process answering a request it has read, with a result or
\* with an error
ServerResponds(id, kind) ==
    /\ rpc.running
    /\ id \in rpc.unanswered
    /\ Len(rpc.stdout) < MaxPipe
    /\ rpc' = [rpc EXCEPT !.stdout = Append(rpc.stdout, Line(kind, id)),
                          !.unanswered = rpc.unanswered \ {id}]
    /\ UNCHANGED RpcVars

\* the server process writing a notification or a log line of its own
ServerWrites(kind) ==
    /\ rpc.running
    /\ Len(rpc.stdout) < MaxPipe
    /\ rpc' = [rpc EXCEPT !.stdout = Append(rpc.stdout, Line(kind, 0))]
    /\ UNCHANGED RpcVars

\* the server process exiting
ServerExits ==
    /\ rpc.running
    /\ rpc' = [rpc EXCEPT !.running = FALSE]
    /\ UNCHANGED RpcVars

NextRpc ==
    \/ SendRequest
    \/ SendRequestNoProcess
    \/ ReadLine
    \/ ReadEndOfFile
    \/ SendNotification
    \/ \E id \in 1..MaxRequestId, kind \in {"response", "error"} : ServerResponds(id, kind)
    \/ \E kind \in {"notification", "log"} : ServerWrites(kind)
    \/ ServerExits

SpecRpc == InitWorkflow /\ [][NextRpc]_vars

\* ----------------------------------------------------------------- claims

\* the descriptor an invocation ran against
IsHttpEntry(e) == e.method \in HttpMethods
ValidEntries == SelectSeq(doc.paths, IsHttpEntry)

CalledFn == generated.tools[CHOOSE i \in 1..Len(generated.tools) :
                                generated.tools[i].name = call.tool]

CallTemplate ==
    IF call.client = "simple" THEN tools[call.tool].path ELSE CalledFn.path

Token(k) == <<"{">> \o k \o <<"}">>

\* C1: no tool invocation lets an exception reach its caller, whichever
\* client makes it and whatever the backend or the connection does.
C1_NeverRaises == ~call.raised

\* C2: an invocation that omits the argument of a path placeholder returns a
\* failure result, and no request goes to a URL that still holds a "{".
C2_MissingPathArgIsFailure ==
    (/\ call.client = "simple"
     /\ call.tool \in DOMAIN tools
     /\ \E k \in ArgKeys :
           Contains(tools[call.tool].path, Token(k)) /\ ~HasKey(call.args, k))
    => /\ call.result.kind = "error"
       /\ ~(call.sent /\ Contains(call.request.url, <<"{">>))

\* C3: invoking a name that is not in the tool table returns the result
\* {"error": "Tool '<name>' not found"} and issues no HTTP request, before
\* connect, after a failed connect and after a successful one.
C3_UnknownToolNotFound ==
    (call.client = "simple" /\ call.tool \notin DOMAIN tools)
    => /\ call.result = Result("error", "tool_not_found", call.tool, FALSE, 0)
       /\ ~call.sent
       /\ call.request = NoRequest
       /\ ~call.raised

C3_Witness ==
    /\ connected = "connected"
    /\ call.client = "simple"
    /\ call.tool = UnknownName
    /\ call.result.error = "tool_not_found"

\* C4: no two operations of one document get the same tool name.
C4_ToolNamesUnique ==
    generated.done =>
        \A i, j \in 1..Len(generated.tools) :
            generated.tools[i].name = generated.tools[j].name => i = j

\* C5: extraction yields exactly one descriptor per (path, method) entry whose
\* key is an HTTP method and none for other keys, in the emitted server and in
\* the client's tool table alike; the sample document yields 5.
C5_OneDescriptorPerOperation ==
    /\ generated.done => Len(generated.tools) = Len(ValidEntries)
    /\ connected = "connected" => Cardinality(DOMAIN tools) = Len(ValidEntries)
    /\ (doc = SampleDoc /\ generated.done) => Len(generated.tools) = 5
    /\ (doc = SampleDoc /\ connected = "connected") => Cardinality(DOMAIN tools) = 5

\* C6: when the identifier of an operation (declared, or method_path) is made
\* of letters, digits, "_", "-", "/", "{" and "}", the name the tool is
\* registered under holds only lowercase letters, digits and "_" and starts
\* with neither a digit nor "_".
IdentifierChars ==
    Range(Upper) \cup Range(Lowers) \cup Digits \cup {"_", "-", "/", "{", "}"}

WellFormedName(n) ==
    /\ Range(n) \subseteq Range(Lowers) \cup Digits \cup {"_"}
    /\ Len(n) > 0 => n[1] \notin Digits \cup {"_"}

C6_ToolNameCharset ==
    /\ generated.done =>
          \A i \in 1..Len(generated.tools) :
              Range(OpId(ValidEntries[i])) \subseteq IdentifierChars
                  => WellFormedName(generated.tools[i].name)
    /\ \A n \in DOMAIN tools :
          Range(n) \subseteq IdentifierChars => WellFormedName(tools[n].name)

\* C7: a path template with K distinct {name} tokens, wherever in a segment
\* they stand, yields K path parameters, required and of type str, named as
\* the tokens from left to right.
RECURSIVE TemplateTokens(_)
TemplateTokens(path) ==
    IF ~Contains(path, <<"{">>) THEN <<>>
    ELSE LET i == CHOOSE k \in 1..Len(path) :
                      path[k] = "{" /\ \A m \in 1..(k - 1) : path[m] # "{"
             rest == SubSeq(path, i + 1, Len(path))
         IN  IF ~Contains(rest, <<"}">>) THEN <<>>
             ELSE LET j == CHOOSE k \in 1..Len(rest) :
                               rest[k] = "}" /\ \A m \in 1..(k - 1) : rest[m] # "}"
                  IN  <<SubSeq(rest, 1, j - 1)>>
                          \o TemplateTokens(SubSeq(rest, j + 1, Len(rest)))

C7_PathParamCoverage ==
    generated.done =>
        \A i \in 1..Len(generated.tools) :
            LET fn == generated.tools[i]
                tokens == TemplateTokens(fn.path)
            IN  /\ Len(fn.path_params) = Len(tokens)
                /\ \A k \in 1..Len(tokens) :
                      /\ fn.path_params[k].name = tokens[k]
                      /\ fn.path_params[k].required
                      /\ fn.path_params[k].type = "str"

\* C8: invoking a POST or PUT tool that has no body parameters issues the
\* request with an empty JSON object as its body.
C8_PostPutSendBody ==
    /\ (/\ call.client = "generated"
        /\ CalledFn.method \in {"post", "put"}
        /\ CalledFn.body_params = <<>>)
       => (call.sent /\ call.request.has_json /\ call.request.json = <<>>)
    /\ (call.client = "simple" /\ call.sent /\ call.request.method \in {"POST", "PUT"})
       => call.request.has_json

\* C9: a GET invocation hands no query key with a null value to the HTTP
\* library: a null or absent query argument is left out of the query string.
C9_NullQueryOmitted ==
    (call.sent /\ call.request.method = "GET" /\ call.request.has_params)
    => \A i \in 1..Len(call.request.params) : call.request.params[i][2] # None

\* C10: an argument substituted into a placeholder of the path template is
\* placed in the URL path only, not in the query string nor in the JSON body.
C10_PathArgOnlyInPath ==
    call.sent =>
        \A k \in Keys(call.args) :
            Contains(CallTemplate, Token(k))
                => /\ ~HasKey(call.request.params, k)
                   /\ ~HasKey(call.request.json, k)

\* the document entry a SimpleMCPClient tool was registered from, and whether
\* the invoked operation has body parameters
EntryOf(name) ==
    ValidEntries[CHOOSE i \in 1..Len(ValidEntries) :
                    /\ OpId(ValidEntries[i]) = name
                    /\ \A j \in (i + 1)..Len(ValidEntries) : OpId(ValidEntries[j]) # name]

CalledHasBodyParams ==
    IF call.client = "simple"
    THEN SelectSeq(ResolveParams(extract_parameters(EntryOf(call.tool).operation,
                                                    EntryOf(call.tool).path), doc),
                   IsBodyLocated) # <<>>
    ELSE CalledFn.body_params # <<>>

\* C11: no request body holds a key with a null value: body arguments that
\* are null or absent are dropped before the request is sent.
C11_NoNullInBody ==
    (call.sent /\ call.request.has_json)
    => \A i \in 1..Len(call.request.json) : call.request.json[i][2] # None

\* C12: GET and DELETE requests carry no JSON body, and a PATCH request
\* carries one exactly when the operation has body parameters.
C12_BodylessMethods ==
    call.sent =>
        /\ call.request.method \in {"GET", "DELETE"} => ~call.request.has_json
        /\ call.request.method = "PATCH" => (call.request.has_json <=> CalledHasBodyParams)

\* C13: extraction never raises: an operation with a malformed or incomplete
\* parameter block is degraded for that block only, and a descriptor is
\* still produced for every operation of the document.
C13_ExtractionNeverRaises ==
    generated.done =>
        /\ ~generated.raised
        /\ Len(generated.tools) = Len(ValidEntries)

\* C14: an invocation answered with a non-2xx status returns an object with
\* exactly "error" and "status_code", the code being the response's; an
\* invocation that meets an unreachable backend, a timeout or a 2xx response
\* with a non-JSON body returns an object with "error" and no "status_code".
C14_ErrorShape ==
    (call.sent /\ call.client \in {"simple", "generated"}) =>
        /\ call.outcome \in {"status_404", "status_500"} =>
              /\ call.result.kind = "error"
              /\ call.result.error = "http_status"
              /\ call.result.has_status_code
              /\ call.result.status_code = StatusOf(call.outcome)
        /\ call.outcome \in {"refused", "timeout", "text_2xx"} =>
              /\ call.result.kind = "error"
              /\ call.result.error # ""
              /\ ~call.result.has_status_code

C14_Witness ==
    /\ call.sent
    /\ call.client = "generated"
    /\ call.outcome = "status_404"
    /\ call.result.has_status_code
    /\ call.result.status_code = 404

\* C15: for a request body that is a $ref to #/components/schemas/<Name>
\* with <Name> declared, the emitted tool has one body-located descriptor per
\* property of the referenced schema, in order, required iff the name is in
\* the schema's "required" list, carrying the property's default.
CanonicalPrefix ==
    <<"#", "/", "c", "o", "m", "p", "o", "n", "e", "n", "t", "s", "/",
      "s", "c", "h", "e", "m", "a", "s", "/">>

RefTarget(ref) == SubSeq(ref, Len(CanonicalPrefix) + 1, Len(ref))

IsCanonicalRef(ref) ==
    /\ ref # None
    /\ StartsWith(ref, CanonicalPrefix)
    /\ RefTarget(ref) # <<>>
    /\ ~Contains(RefTarget(ref), <<"/">>)

IsResolved(p) == p.ref = None /\ p.type # NoType

C16_NoUnresolvedReference ==
    generated.done =>
        /\ \A i \in 1..Len(generated.tools) :
              \A k \in 1..Len(generated.tools[i].params) :
                  IsResolved(generated.tools[i].params[k])
        /\ \A k \in 1..Len(generated.failed) : IsResolved(generated.failed[k])

\* C17: the signature of every emitted tool is the stable partition of its
\* descriptor sequence by the required flag: each required descriptor stands
\* at its rank among the required ones, each optional descriptor after all
\* required ones at its rank among the optional ones, so that no optional
\* parameter precedes a required one and both groups keep their order.
RequiredUpTo(params, k) == Cardinality({j \in 1..k : params[j].required})

OptionalUpTo(params, k) == Cardinality({j \in 1..k : ~params[j].required})

SignaturePosition(params, k) ==
    IF params[k].required
    THEN RequiredUpTo(params, k)
    ELSE RequiredUpTo(params, Len(params)) + OptionalUpTo(params, k)

C17_SignatureStablePartition ==
    (generated.done /\ ~generated.raised) =>
        \A i \in 1..Len(generated.tools) :
            LET params == generated.tools[i].params
                sig == generated.tools[i].signature
            IN  /\ Len(sig) = Len(params)
                /\ \A k \in 1..Len(params) : sig[SignaturePosition(params, k)] = params[k]
                /\ \A a, b \in 1..Len(sig) : (a < b /\ sig[b].required) => sig[a].required

\* POST /o/{x} with an optional query parameter and the Order body: the
\* descriptors x, q, n, s give the signature x, n, q, s
C17_Witness ==
    /\ generated.done /\ ~generated.raised
    /\ \E i \in 1..Len(generated.tools) :
          LET params == generated.tools[i].params
              sig == generated.tools[i].signature
          IN  /\ Len(params) = 4
              /\ ~params[2].required /\ params[3].required
              /\ sig[2] = params[3] /\ sig[3] = params[2]

\* C18: an invocation hands at most one request to the HTTP library,
\* whatever the outcome: an invocation that reaches the HTTP call makes
\* exactly one attempt (a failure is not retried, a repeated invocation is
\* not suppressed), any other invocation makes none.
C18_AtMostOneAttempt ==
    call.client \in {"simple", "generated"} =>
        /\ call.attempts <= 1
        /\ call.sent <=> call.attempts = 1
        /\ (call.client = "simple" /\ call.result.error # "tool_not_found")
              => call.attempts = 1

C18_Witness ==
    /\ call.client = "simple"
    /\ call.sent
    /\ call.outcome = "timeout"
    /\ call.result.kind = "error"
    /\ call.attempts = 1

\* C19: concurrent invocations on one client do not interfere: whatever
\* the interleaving, the tool table holds the document's descriptors with
\* their original path templates, and each invocation's URL, query and body
\* are those of its own arguments applied to the document's descriptor, its
\* result that of its own response.
OriginalTool(name) ==
    [name |-> name, method |-> MethodUpper(EntryOf(name).method),
     path |-> EntryOf(name).path]

C19_NoInterference ==
    /\ tools = <<>> \/ tools = ConnectTools(doc.paths, <<>>)
    /\ \A n \in DOMAIN tools : tools[n].path = EntryOf(n).path
    /\ \A c \in Callers :
          (pending[c].phase # "idle" /\ pending[c].call.sent) =>
              LET own == pending[c].call
              IN  /\ own.request.url = Substitute(EntryOf(own.tool).path, own.args)
                  /\ own.request = SimpleRequest(OriginalTool(own.tool), own.args)
                  /\ pending[c].phase = "done" => own.result = Normalize(own.outcome)

\* two coroutines suspended in the same tool with different path arguments,
\* each with the URL of its own argument
C19_Witness ==
    /\ pending[1].phase = "awaiting"
    /\ pending[2].phase = "awaiting"
    /\ pending[1].call.tool = pending[2].call.tool
    /\ pending[1].call.args = <<<<KeyX, <<"7">>>>>>
    /\ pending[2].call.args = <<<<KeyX, None>>>>
    /\ pending[1].call.request.url = <<"/", "o", "/", "7">>
    /\ pending[2].call.request.url = <<"/", "o", "/", "N", "o", "n", "e">>

\* C20: a 2xx response whose body is JSON is returned as the payload: the
\* returned text is JSON again and denotes the value the backend wrote (the
\* text itself is re-serialized with an indent of 2); in particular the
\* order object answered to the create-order tool is returned.
C20_PayloadIsBackendValue ==
    (call.sent /\ call.client \in {"simple", "generated"} /\ call.outcome = "json_2xx") =>
        /\ call.result.kind = "payload"
        /\ Loads(call.result.detail).ok
        /\ Loads(call.result.detail).value = Loads(call.body).value
        /\ \A v \in SampleValues :
              call.body = Compact(v) =>
                  /\ Loads(call.result.detail).value = v
                  /\ call.result.detail = Dumps(v)

\* create_order_orders_post called with pizza_type, size and quantity, the
\* backend answering with the order: the order comes back, in another text
C20_Witness ==
    /\ call.sent
    /\ call.client = "generated"
    /\ call.tool = FuncName(SampleDoc.paths[3])
    /\ Keys(call.args) = {KeyPizzaType, KeySize, KeyQuantity}
    /\ call.request.method = "POST"
    /\ call.body = Compact(SampleOrder)
    /\ call.result.kind = "payload"
    /\ call.result.detail # call.body
    /\ Loads(call.result.detail).value = SampleOrder

\* C21: every emitted tool is annotated read-only iff its operation's
\* method is GET and destructive iff it is DELETE or PATCH; no tool is both.
C21_Annotations ==
    (generated.done /\ ~generated.raised) =>
        \A i \in 1..Len(generated.tools) :
            LET httpMethod == MethodUpper(ValidEntries[i].method)
                tool == generated.tools[i]
            IN  /\ tool.readOnlyHint <=> (httpMethod = "GET")
                /\ tool.destructiveHint <=> (httpMethod \in {"DELETE", "PATCH"})
                /\ ~(tool.readOnlyHint /\ tool.destructiveHint)

\* the sample document: GET /menu read-only, POST /orders neither, PATCH
\* /orders/{order_id}/cancel destructive
C21_Witness ==
    /\ generated.done /\ ~generated.raised
    /\ doc = SampleDoc
    /\ generated.tools[1].readOnlyHint /\ ~generated.tools[1].destructiveHint
    /\ ~generated.tools[3].readOnlyHint /\ ~generated.tools[3].destructiveHint
    /\ generated.tools[5].destructiveHint /\ ~generated.tools[5].readOnlyHint

\* C22: within a stage every requested tool call is answered by exactly one
\* tool-result message carrying the call's id; no requested call is left
\* without a result, whether or not the stage has a tool of that name.
RequestedCalls ==
    UNION {{workflow.messages[k].tool_calls[i] :
                i \in 1..Len(workflow.messages[k].tool_calls)} :
              k \in 1..Len(workflow.messages)}

AnswersTo(id) ==
    {j \in 1..Len(workflow.messages) :
        workflow.messages[j].type = "tool" /\ workflow.messages[j].tool_call_id = id}

C22_EveryCallAnswered ==
    \A tc \in RequestedCalls : Cardinality(AnswersTo(tc.id)) = 1

\* C23: in every run the order-taking stage executes first and once, the
\* scheduling stage at most once and after it, only when order_info is an
\* object with a non-empty order_id that a create-order tool returned; a
\* create-order error result does not lead to scheduling; and no run ends
\* anywhere but in the end state, after at most these two stages.
FromCreateOrder(info) ==
    \E k \in 1..Len(workflow.messages), i \in 1..MaxToolCalls :
        /\ i <= Len(workflow.messages[k].tool_calls)
        /\ Contains(workflow.messages[k].tool_calls[i].name, CreateOrder)
        /\ \E j \in AnswersTo(workflow.messages[k].tool_calls[i].id) :
              /\ JsonLoads(workflow.messages[j].content).ok
              /\ JsonLoads(workflow.messages[j].content).info = info

IsErrorResult(info) ==
    \E i \in 1..Len(info.value) : info.value[i].key = <<"e", "r", "r", "o", "r">>

C23_StageOrder ==
    /\ workflow.ran \in {<<>>, <<"pizza">>, <<"pizza", "scheduling">>}
    /\ workflow.node \in {"pizza", "scheduling"} => workflow.ran = <<"pizza">>
    /\ workflow.node = "end" => workflow.ran # <<>>
    /\ (workflow.node = "scheduling" \/ workflow.ran = <<"pizza", "scheduling">>) =>
          /\ workflow.order_info.kind = "dict"
          /\ HasOrderId(workflow.order_info)
          /\ ~IsErrorResult(workflow.order_info)
          /\ FromCreateOrder(workflow.order_info)

C23_WorkflowRuns ==
    /\ C23_StageOrder
    /\ workflow.node # "raised"

\* C24: for a request body whose schema is inline, the emitted tool has one
\* body-located descriptor per declared property, in order, required iff
\* the name is in the schema's "required" list; a schema without properties
\* (or no request body) gives no body parameters. Documents in which
\* generation stops for another reason than an inline property are left out.
OtherRaise(e) == EntryRaises(e, doc) /\ ~HasBadProperty(e.operation.requestBody)

InlineBodyMatches(i) ==
    LET schema == ValidEntries[i].operation.requestBody
        body == generated.tools[i].body_params
    IN  /\ Len(body) = Len(schema.properties)
        /\ \A k \in 1..Len(body) :
              /\ body[k].name = schema.properties[k].name
              /\ body[k].location = "body"
              /\ body[k].required <=> (body[k].name \in schema.required)

C24_InlineBodyWhenGenerated ==
    (generated.done /\ ~generated.raised) =>
        \A i \in 1..Len(ValidEntries) :
            ValidEntries[i].operation.requestBody.ref = None => InlineBodyMatches(i)

C24_InlineBody ==
    (generated.done /\ \A k \in 1..Len(ValidEntries) : ~OtherRaise(ValidEntries[k])) =>
        /\ ~generated.raised
        /\ \A i \in 1..Len(ValidEntries) :
              ValidEntries[i].operation.requestBody.ref = None => InlineBodyMatches(i)

\* C25: every declared parameter with "in": "query" gives exactly one
\* query-located descriptor and no other parameter gives one; the descriptor
\* has the declared name and required flag, and the declared type, string
\* when the type is absent or not one of the six known. Documents in which
\* generation stops for another reason than a query parameter are left out.
QueryParameterRaise(e) ==
    \E i \in 1..Len(e.operation.parameters) :
        /\ e.operation.parameters[i]["in"] = "query"
        /\ \/ e.operation.parameters[i].name = None
           \/ e.operation.parameters[i].type = TypeList

KnownType(type) ==
    CASE type = "integer" -> "int"
      [] type = "number" -> "float"
      [] type = "boolean" -> "bool"
      [] type = "array" -> "list"
      [] type = "object" -> "dict"
      [] OTHER -> "str"

QueryMatches(i) ==
    LET declared == SelectSeq(ValidEntries[i].operation.parameters, IsQueryParam)
        query == generated.tools[i].query_params
    IN  /\ Len(query) = Len(declared)
        /\ \A k \in 1..Len(query) :
              /\ query[k].name = declared[k].name
              /\ query[k].location = "query"
              /\ query[k].required = declared[k].required
              /\ query[k].type = KnownType(declared[k].type)

C25_QueryWhenGenerated ==
    (generated.done /\ ~generated.raised) =>
        \A i \in 1..Len(ValidEntries) : QueryMatches(i)

C25_QueryDescriptors ==
    (generated.done
        /\ \A k \in 1..Len(ValidEntries) :
              EntryRaises(ValidEntries[k], doc) => QueryParameterRaise(ValidEntries[k])) =>
        /\ ~generated.raised
        /\ \A i \in 1..Len(ValidEntries) : QueryMatches(i)

\* C26: whatever the interleaving of the callers of get_external_mcp, no
\* caller is handed the shared manager before its connect() has completed.
C26_ManagerConnectedWhenReceived ==
    \A c \in Callers :
        external.callers[c].phase = "has_manager" => ~external.callers[c].early

\* C30: once connect() has returned, it returned success exactly when the
\* filesystem and the memory server both connected, whatever the calendar
\* server did; each handle is unset exactly when its server's connection
\* failed; and a receipt or history operation run after that takes its local
\* fallback exactly when its server failed.
C30_ConnectOutcome ==
    external.step = "returned" =>
        /\ external.success <=> (/\ external.answered.filesystem = "ok"
                                 /\ external.answered.memory = "ok")
        /\ external.connected = external.success
        /\ (external.filesystem = "unset") <=> (external.answered.filesystem = "failed")
        /\ (external.memory = "unset") <=> (external.answered.memory = "failed")
        /\ (external.calendar = "unset") <=> (external.answered.calendar = "failed")
        /\ \A server \in {"filesystem", "memory", "calendar"} :
               external.answered[server] \in {"ok", "failed"}
        /\ (external.last.after_connect /\ external.last.op = "save_order_receipt") =>
               ((external.last.method = "direct_write")
                    <=> (external.answered.filesystem = "failed"))
        /\ (external.last.after_connect /\ external.last.op = "get_order_history") =>
               ((external.last.method = "filesystem_fallback")
                    <=> (external.answered.memory = "failed"))

\* connect() returned success although the calendar server failed, and a
\* receipt was then written through the connected filesystem server
C30_Witness ==
    /\ external.step = "returned"
    /\ external.success
    /\ external.answered.calendar = "failed"
    /\ external.last.after_connect
    /\ external.last.op = "save_order_receipt"
    /\ external.last.method = "filesystem_mcp"

\* C27: for every operation both emitted by the generator and registered by
\* the client, the path-parameter names of extract_parameters are, in order,
\* the names _infer_parameters finds in the template, and they are the
\* placeholders call_tool replaces when every one of them is an argument.
SuppliedArguments(names) == [i \in 1..Len(names) |-> <<names[i], <<"1">>>>]

C27_PathNamesAgree ==
    (generated.done /\ ~generated.raised /\ connected = "connected") =>
        \A i \in 1..Len(generated.tools) :
            \A name \in DOMAIN tools :
                tools[name].path = generated.tools[i].path =>
                    LET fn == generated.tools[i]
                        derived == [k \in 1..Len(fn.path_params) |-> fn.path_params[k].name]
                        inferred == infer_parameters(tools[name]).required
                    IN  /\ derived = inferred
                        /\ Range(SubstitutedKeys(tools[name].path,
                                                 SuppliedArguments(derived)))
                               = Range(derived)

\* C28: after any sequence of create, get and cancel requests every stored
\* order is confirmed or cancelled, the order under an id that has been
\* cancelled is still cancelled, and a cancel request answered 400 or 404
\* left the store as it was.
C28_StatusesOfStore ==
    \A id \in DOMAIN backend.ORDERS :
        backend.ORDERS[id].status \in {"confirmed", "cancelled"}

C28_RefusedCancelKeepsStore ==
    (backend.last.op = "cancel_order" /\ backend.last.status \in {400, 404}) =>
        ~backend.last.changed

C28_OrderStore ==
    /\ C28_StatusesOfStore
    /\ \A id \in backend.cancelled :
          id \in DOMAIN backend.ORDERS /\ backend.ORDERS[id].status = "cancelled"
    /\ C28_RefusedCancelKeepsStore

\* C29: whatever the client sends and whatever lines the server writes, the
\* value _send_request returned for a request is the result of the response
\* carrying that request's id (nothing, when that response is an error or
\* the stream ended), and the ids of the requests written are strictly
\* increasing.
C29_RequestIdsIncrease ==
    LET requests == SelectSeq(rpc.stdin, IsRequest)
    IN  \A i, j \in 1..Len(requests) : i < j => requests[i].id < requests[j].id

C29_AnswerMatchesRequest ==
    /\ rpc.last.id # 0 =>
          \/ /\ rpc.last.line.kind = "response"
             /\ rpc.last.line.id = rpc.last.id
             /\ rpc.last.value = Value("result", rpc.last.id)
          \/ /\ rpc.last.line.kind = "error"
             /\ rpc.last.line.id = rpc.last.id
             /\ rpc.last.value = Value("none", 0)
          \/ /\ rpc.last.line.kind = "eof"
             /\ rpc.last.value = Value("none", 0)
    /\ C29_RequestIdsIncrease

====
